---- MODULE Spec2Model ----
(***************************************************************************)
(* Style-span alignment engine of ProcessPreserveStyling_http.             *)
(*                                                                         *)
(* Python strings are modelled as sequences of one-character strings, so   *)
(* that searching, slicing, case mapping and decoding are computed and not *)
(* assumed.  Python indices are 0-based; TLA+ sequences are 1-based, so a  *)
(* Python index p is the element p + 1 of the sequence.                    *)
(***************************************************************************)
EXTENDS Integers, Sequences, FiniteSets, TLC

VARIABLES
    \* transform_alignment_to_styles (one call)
    translated_text, alignment, keep_unmatched, key, item, cursor, cursors, out,
    \* _http_post_json_with_retries (one call)
    attempt, backoff, resp, posts, waits, http_pc,
    \* _parse_styles, then extract_words_by_style, for one row
    raw_styles, source_text, styles, arrays, ext_pc,
    \* call_alignment_api (one call)
    api_url, terms, data, content, parsed, api_obj, api_err, api_stages, http_calls, api_pc,
    \* process_label_translation or process_product_registration (one batch)
    processor, APIM_URL, batch_keep, legal_rows, langs, row, lang, source, row_styles,
    calls, answer, written, summary, failure, batch_pc,
    \* _pair_positionally_if_needed (one call)
    raw_alignment, src_arrays, fixed_alignment, pair_pc,
    \* two concurrent calls of the alignment engine: the locals of each
    engine,
    \* one call of _extract_first_json_object: its text and what it returns
    scan

locVars == <<translated_text, alignment, keep_unmatched, key, item, cursor, cursors, out>>
httpVars == <<attempt, backoff, resp, posts, waits, http_pc>>

extVars == <<raw_styles, source_text, styles, arrays, ext_pc>>

apiVars == <<api_url, terms, data, content, parsed, api_obj, api_err, api_stages, http_calls, api_pc>>

batchVars == <<processor, APIM_URL, batch_keep, legal_rows, langs, row, lang, source, row_styles,
               calls, answer, written, summary, failure, batch_pc>>

pairVars == <<raw_alignment, src_arrays, fixed_alignment, pair_pc>>

vars == <<locVars, httpVars, extVars, apiVars, batchVars, pairVars, engine, scan>>

(***************************************************************************)
(* Bounds of the model                                                     *)
(***************************************************************************)
MaxTextLen == 3
MaxTargetLen == 1
MaxEntries == 2
MaxSpans == 2
MaxRows == 2
MaxLangs == 2
MaxBucket == 2

(***************************************************************************)
(* Python str primitives                                                   *)
(***************************************************************************)
UpperLetters == <<"A","B","C","D","E","F","G","H","I","J","K","L","M",
                  "N","O","P","Q","R","S","T","U","V","W","X","Y","Z">>
LowerLetters == <<"a","b","c","d","e","f","g","h","i","j","k","l","m",
                  "n","o","p","q","r","s","t","u","v","w","x","y","z">>

Min(S) == CHOOSE x \in S : \A y \in S : x <= y
Max(S) == CHOOSE x \in S : \A y \in S : x >= y

\* str.lower() on one ASCII character
LowerCh(c) ==
    IF \E i \in 1..26 : UpperLetters[i] = c
    THEN LowerLetters[CHOOSE i \in 1..26 : UpperLetters[i] = c]
    ELSE c

\* str.upper() on one ASCII character
UpperCh(c) ==
    IF \E i \in 1..26 : LowerLetters[i] = c
    THEN UpperLetters[CHOOSE i \in 1..26 : LowerLetters[i] = c]
    ELSE c

\* str.lower(): the capital I with dot above (U+0130, one element "U+0130"
\* of a modelled string) lowers to two code points, "i" and the combining
\* dot above U+0307; every other character of the model lowers to one
Lower(s) ==
    LET dotted == {k \in 1..Len(s) : s[k] = "U+0130"}
        \* the index in the result of the first code point of s[i]
        At(i) == i + Cardinality({k \in dotted : k < i})
        Of(j) == CHOOSE i \in 1..Len(s) : At(i) <= j /\ (i = Len(s) \/ j < At(i + 1))
    IN  IF dotted = {} THEN [i \in 1..Len(s) |-> LowerCh(s[i])]
        ELSE [j \in 1..(Len(s) + Cardinality(dotted)) |->
                 IF s[Of(j)] # "U+0130" THEN LowerCh(s[Of(j)])
                 ELSE IF j = At(Of(j)) THEN "i" ELSE "U+0307"]
Upper(s) == [i \in 1..Len(s) |-> UpperCh(s[i])]

\* needle occurs in text at Python index p
OccursAt(text, needle, p) ==
    /\ p >= 0
    /\ p + Len(needle) <= Len(text)
    /\ \A k \in 1..Len(needle) : text[p + k] = needle[k]

\* text.find(needle, start): lowest index >= start of an occurrence, else -1
Find(text, needle, start) ==
    LET s0 == IF start < 0 THEN Max({0, start + Len(text)}) ELSE start
        hits == {p \in s0..(Len(text) - Len(needle)) : OccursAt(text, needle, p)}
    IN  IF hits = {} THEN -1 ELSE Min(hits)

\* text[i:j] for a slice without step, Python's clamping of negative and
\* out-of-range bounds included
PySlice(text, i, j) ==
    LET n  == Len(text)
        i0 == IF i < 0 THEN Max({0, i + n}) ELSE Min({i, n})
        j0 == IF j < 0 THEN Max({0, j + n}) ELSE Min({j, n})
    IN  IF j0 <= i0 THEN <<>> ELSE SubSeq(text, i0 + 1, j0)

\* needle in text
Contains(text, needle) == Find(text, needle, 0) # -1

\* all sequences over S of length 0..n
SeqsUpTo(S, n) == UNION {[1..k -> S] : k \in 0..n}

\* the words and the dict keys the code names, as character sequences; a
\* TLA+ string cannot hold the backquote of the code fence, "~" stands for it
\* and no text of the model holds a "~" of its own
W == [None |-> <<"N","o","n","e">>, True |-> <<"T","r","u","e">>, False |-> <<"F","a","l","s","e">>,
      BOLD |-> <<"B","O","L","D">>, BOLDED |-> <<"B","O","L","D","E","D">>,
      ITALIC |-> <<"I","T","A","L","I","C">>, ITALICS |-> <<"I","T","A","L","I","C","S">>,
      ITALICIZED |-> <<"I","T","A","L","I","C","I","Z","E","D">>,
      UNDERLINE |-> <<"U","N","D","E","R","L","I","N","E">>,
      UNDERLINED |-> <<"U","N","D","E","R","L","I","N","E","D">>,
      fence |-> <<"~","~","~">>, json |-> <<"j","s","o","n">>, javascript |-> <<"j","a","v","a","s","c","r","i","p","t">>, js |-> <<"j","s">>]
K == [offset |-> <<"o","f","f","s","e","t">>, Offset |-> <<"O","f","f","s","e","t">>,
      length |-> <<"l","e","n","g","t","h">>, Length |-> <<"L","e","n","g","t","h">>,
      style |-> <<"s","t","y","l","e">>, Style |-> <<"S","t","y","l","e">>,
      bold |-> <<"b","o","l","d">>, italics |-> <<"i","t","a","l","i","c","s">>,
      underline |-> <<"u","n","d","e","r","l","i","n","e">>,
      choices |-> <<"c","h","o","i","c","e","s">>, message |-> <<"m","e","s","s","a","g","e">>,
      content |-> <<"c","o","n","t","e","n","t">>]

(***************************************************************************)
(* Python values: what json.loads returns and the code handles.  A value   *)
(* is [t |-> tag, v |-> payload]; a dict is the sequence of its            *)
(* <<key, value>> pairs in insertion order.                                *)
(***************************************************************************)
JNull == [t |-> "null", v |-> 0]
JBool(b) == [t |-> "bool", v |-> b]
JInt(n) == [t |-> "int", v |-> n]
JStr(s) == [t |-> "str", v |-> s]
JList(l) == [t |-> "list", v |-> l]
JDict(d) == [t |-> "dict", v |-> d]

DictHas(d, k) == \E i \in 1..Len(d.v) : d.v[i][1] = k

\* d.get(k, default)
DictGet(d, k, default) ==
    IF DictHas(d, k)
    THEN d.v[CHOOSE i \in 1..Len(d.v) : d.v[i][1] = k][2]
    ELSE default

\* d[k] = x: a new key is appended, an old one keeps its place
DictSet(d, k, x) ==
    IF DictHas(d, k)
    THEN JDict([i \in 1..Len(d.v) |-> IF d.v[i][1] = k THEN <<k, x>> ELSE d.v[i]])
    ELSE JDict(Append(d.v, <<k, x>>))

DictKeys(d) == [i \in 1..Len(d.v) |-> d.v[i][1]]

\* bool(x), as "x or 0" and "if not x" use it
Truthy(x) ==
    CASE x.t = "null" -> FALSE
      [] x.t = "bool" -> x.v
      [] x.t = "int"  -> x.v # 0
      [] OTHER        -> x.v # <<>>

Digits == <<"0","1","2","3","4","5","6","7","8","9">>
IsDigit(c) == \E i \in 1..10 : Digits[i] = c
DigitVal(c) == (CHOOSE i \in 1..10 : Digits[i] = c) - 1
Whitespace == {" ", "\n", "\t", "\r"}

RECURSIVE DigitsValue(_, _)
\* the number a non-empty run of digits denotes, acc the value so far
DigitsValue(ds, acc) ==
    IF ds = <<>> THEN acc ELSE DigitsValue(Tail(ds), acc * 10 + DigitVal(Head(ds)))

RECURSIVE IntDigits(_)
\* the decimal digits of n >= 0
IntDigits(n) ==
    IF n < 10 THEN <<Digits[n + 1]>> ELSE Append(IntDigits(n \div 10), Digits[(n % 10) + 1])

\* s.strip()
RECURSIVE LStrip(_)
LStrip(s) == IF s # <<>> /\ Head(s) \in Whitespace THEN LStrip(Tail(s)) ELSE s
RECURSIVE RStrip(_)
RStrip(s) ==
    IF s # <<>> /\ s[Len(s)] \in Whitespace THEN RStrip(SubSeq(s, 1, Len(s) - 1)) ELSE s
Strip(s) == RStrip(LStrip(s))

\* int(x): [ok |-> FALSE] stands for the TypeError or ValueError
IntFail == [ok |-> FALSE, n |-> 0]
IntOfStr(s) ==
    LET b    == Strip(s)
        neg  == b # <<>> /\ b[1] = "-"
        sign == b # <<>> /\ b[1] \in {"-", "+"}
        ds   == IF sign THEN Tail(b) ELSE b
    IN  IF ds # <<>> /\ \A i \in 1..Len(ds) : IsDigit(ds[i])
        THEN [ok |-> TRUE, n |-> IF neg THEN 0 - DigitsValue(ds, 0) ELSE DigitsValue(ds, 0)]
        ELSE IntFail
PyInt(x) ==
    CASE x.t = "int"  -> [ok |-> TRUE, n |-> x.v]
      [] x.t = "bool" -> [ok |-> TRUE, n |-> IF x.v THEN 1 ELSE 0]
      [] x.t = "str"  -> IntOfStr(x.v)
      [] OTHER        -> IntFail

(***************************************************************************)
(* json.loads: a recursive-descent decoder over the characters.  Numbers   *)
(* are integers (the inputs drawn hold no fraction or exponent) and string *)
(* escapes are \" \\ \/ \n \t.                                             *)
(***************************************************************************)
ParseFail == [ok |-> FALSE, val |-> JNull, pos |-> 0]
ParseOk(x, p) == [ok |-> TRUE, val |-> x, pos |-> p]

RECURSIVE SkipWs(_, _)
SkipWs(s, i) == IF i <= Len(s) /\ s[i] \in Whitespace THEN SkipWs(s, i + 1) ELSE i

HasAt(s, i, word) == OccursAt(s, word, i - 1)

RECURSIVE ScanString(_, _, _)
\* the characters after an opening quote, up to the closing one
ScanString(s, i, acc) ==
    IF i > Len(s) THEN ParseFail
    ELSE IF s[i] = "\"" THEN ParseOk(acc, i + 1)
    ELSE IF s[i] = "\\"
         THEN IF i + 1 > Len(s) THEN ParseFail
              ELSE IF s[i + 1] \in {"\"", "\\", "/"}
                   THEN ScanString(s, i + 2, Append(acc, s[i + 1]))
              ELSE IF s[i + 1] = "n" THEN ScanString(s, i + 2, Append(acc, "\n"))
              ELSE IF s[i + 1] = "t" THEN ScanString(s, i + 2, Append(acc, "\t"))
              ELSE ParseFail
    ELSE IF s[i] \in {"\n", "\t", "\r"} THEN ParseFail
    ELSE ScanString(s, i + 1, Append(acc, s[i]))

RECURSIVE DigitRunEnd(_, _)
\* the index after the run of digits that starts at i
DigitRunEnd(s, i) == IF i <= Len(s) /\ IsDigit(s[i]) THEN DigitRunEnd(s, i + 1) ELSE i

\* an integer at i: -? (0 | [1-9][0-9]*)
ScanNumber(s, i) ==
    LET neg == s[i] = "-"
        d   == IF neg THEN i + 1 ELSE i
        e   == IF d <= Len(s) /\ s[d] = "0" THEN d + 1 ELSE DigitRunEnd(s, d)
        n   == DigitsValue(SubSeq(s, d, e - 1), 0)
    IN  IF e = d THEN ParseFail
        ELSE ParseOk(JInt(IF neg THEN 0 - n ELSE n), e)

RECURSIVE ParseValue(_, _)
RECURSIVE ParseArrayRest(_, _, _)
RECURSIVE ParseObjectRest(_, _, _)

ParseValue(s, i) ==
    IF i > Len(s) THEN ParseFail
    ELSE IF s[i] = "\""
         THEN LET r == ScanString(s, i + 1, <<>>)
              IN  IF r.ok THEN ParseOk(JStr(r.val), r.pos) ELSE ParseFail
    ELSE IF s[i] = "["
         THEN LET j == SkipWs(s, i + 1)
              IN  IF j <= Len(s) /\ s[j] = "]"
                  THEN ParseOk(JList(<<>>), j + 1)
                  ELSE ParseArrayRest(s, j, <<>>)
    ELSE IF s[i] = "{"
         THEN LET j == SkipWs(s, i + 1)
              IN  IF j <= Len(s) /\ s[j] = "}"
                  THEN ParseOk(JDict(<<>>), j + 1)
                  ELSE ParseObjectRest(s, j, JDict(<<>>))
    ELSE IF HasAt(s, i, <<"n","u","l","l">>) THEN ParseOk(JNull, i + 4)
    ELSE IF HasAt(s, i, <<"t","r","u","e">>) THEN ParseOk(JBool(TRUE), i + 4)
    ELSE IF HasAt(s, i, <<"f","a","l","s","e">>) THEN ParseOk(JBool(FALSE), i + 5)
    ELSE IF s[i] = "-" \/ IsDigit(s[i]) THEN ScanNumber(s, i)
    ELSE ParseFail

\* the elements of an array from the one at i on
ParseArrayRest(s, i, acc) ==
    LET r == ParseValue(s, i)
        j == SkipWs(s, r.pos)
    IN  IF ~r.ok \/ j > Len(s) THEN ParseFail
        ELSE IF s[j] = "," THEN ParseArrayRest(s, SkipWs(s, j + 1), Append(acc, r.val))
        ELSE IF s[j] = "]" THEN ParseOk(JList(Append(acc, r.val)), j + 1)
        ELSE ParseFail

\* the members of an object from the one whose key starts at i on
ParseObjectRest(s, i, acc) ==
    IF i > Len(s) \/ s[i] # "\"" THEN ParseFail
    ELSE LET k == ScanString(s, i + 1, <<>>)
             c == SkipWs(s, k.pos)
         IN  IF ~k.ok \/ c > Len(s) \/ s[c] # ":" THEN ParseFail
             ELSE LET r == ParseValue(s, SkipWs(s, c + 1))
                      j == SkipWs(s, r.pos)
                  IN  IF ~r.ok \/ j > Len(s) THEN ParseFail
                      ELSE IF s[j] = ","
                           THEN ParseObjectRest(s, SkipWs(s, j + 1), DictSet(acc, k.val, r.val))
                      ELSE IF s[j] = "}"
                           THEN ParseOk(DictSet(acc, k.val, r.val), j + 1)
                      ELSE ParseFail

\* json.loads(s): [ok |-> FALSE] stands for the JSONDecodeError
JsonLoads(s) ==
    LET Whole(r) ==
            IF r.ok /\ SkipWs(s, r.pos) = Len(s) + 1
            THEN [ok |-> TRUE, val |-> r.val]
            ELSE [ok |-> FALSE, val |-> JNull]
    IN  Whole(ParseValue(s, SkipWs(s, 1)))

(***************************************************************************)
(* str(x) and repr(x)                                                      *)
(***************************************************************************)

RECURSIVE Join(_, _)
\* sep.join(parts)
Join(parts, sep) ==
    IF parts = <<>> THEN <<>>
    ELSE IF Len(parts) = 1 THEN parts[1]
    ELSE parts[1] \o sep \o Join(Tail(parts), sep)

RECURSIVE EscapeChars(_, _)
\* the characters of a string literal quoted with q
EscapeChars(str, q) ==
    IF str = <<>> THEN <<>>
    ELSE (IF Head(str) \in {q, "\\"} THEN <<"\\", Head(str)>>
          ELSE IF Head(str) = "\n" THEN <<"\\", "n">>
          ELSE IF Head(str) = "\t" THEN <<"\\", "t">>
          ELSE <<Head(str)>>) \o EscapeChars(Tail(str), q)

HasChar(str, c) == \E i \in 1..Len(str) : str[i] = c

\* repr of a str: single quotes unless it holds ' and no "
StrRepr(str) ==
    LET q == IF HasChar(str, "'") /\ ~HasChar(str, "\"") THEN "\"" ELSE "'"
    IN  <<q>> \o EscapeChars(str, q) \o <<q>>

IntStr(n) == IF n < 0 THEN <<"-">> \o IntDigits(0 - n) ELSE IntDigits(n)

RECURSIVE PyRepr(_)
PyRepr(x) ==
    CASE x.t = "null" -> W.None
      [] x.t = "bool" -> IF x.v THEN W.True ELSE W.False
      [] x.t = "int"  -> IntStr(x.v)
      [] x.t = "str"  -> StrRepr(x.v)
      [] x.t = "list" ->
            <<"[">> \o Join([i \in 1..Len(x.v) |-> PyRepr(x.v[i])], <<",", " ">>) \o <<"]">>
      [] OTHER ->
            <<"{">> \o Join([i \in 1..Len(x.v) |->
                                StrRepr(x.v[i][1]) \o <<":", " ">> \o PyRepr(x.v[i][2])],
                            <<",", " ">>) \o <<"}">>

\* str(x)
PyStr(x) == IF x.t = "str" THEN x.v ELSE PyRepr(x)

(***************************************************************************)
(* json.dumps with its default separators: the text a stored annotation    *)
(* container or a service answer is drawn as                               *)
(***************************************************************************)
JsonString(str) == <<"\"">> \o EscapeChars(str, "\"") \o <<"\"">>

RECURSIVE JsonDumps(_)
JsonDumps(x) ==
    CASE x.t = "null" -> <<"n","u","l","l">>
      [] x.t = "bool" -> IF x.v THEN <<"t","r","u","e">> ELSE <<"f","a","l","s","e">>
      [] x.t = "int"  -> IntStr(x.v)
      [] x.t = "str"  -> JsonString(x.v)
      [] x.t = "list" ->
            <<"[">> \o Join([i \in 1..Len(x.v) |-> JsonDumps(x.v[i])], <<",", " ">>) \o <<"]">>
      [] OTHER ->
            <<"{">> \o Join([i \in 1..Len(x.v) |->
                                JsonString(x.v[i][1]) \o <<":", " ">> \o JsonDumps(x.v[i][2])],
                            <<",", " ">>) \o <<"}">>

(***************************************************************************)
(* StyleSpanExtractor                                                      *)
(***************************************************************************)

KnownStyles == {W.BOLD, W.ITALIC, W.UNDERLINE}

\* a mutation of _normalize_style_name: ("UNDERLINED",) as a tuple
NormalizeStyleNameTuple(name) ==
    LET s0 == Upper(name)
        s1 == IF s0 \in {W.BOLDED} THEN W.BOLD ELSE s0
        s2 == IF s1 \in {W.ITALICS, W.ITALICIZED} THEN W.ITALIC ELSE s1
    IN  IF s2 \in {W.UNDERLINED} THEN W.UNDERLINE ELSE s2

\* _normalize_style_name on a str (the "name or ''" is done by the caller's
\* model).  ("UNDERLINED") is a str, not a tuple: "s in" is a substring test.
NormalizeStyleName(name) ==
    LET s0 == Upper(name)
        s1 == IF s0 \in {W.BOLDED} THEN W.BOLD ELSE s0
        s2 == IF s1 \in {W.ITALICS, W.ITALICIZED} THEN W.ITALIC ELSE s1
    IN  IF Contains(W.UNDERLINED, s2) THEN W.UNDERLINE ELSE s2

StyleDict(offset, length, style) ==
    JDict(<< <<K.offset, JInt(offset)>>, <<K.length, JInt(length)>>, <<K.style, JStr(style)>> >>)

\* int(s.get("offset", s.get("Offset", 0)) or 0)
DecodeOffset(s) ==
    LET o == DictGet(s, K.offset, DictGet(s, K.Offset, JInt(0)))
    IN  PyInt(IF Truthy(o) THEN o ELSE JInt(0))

\* int(s.get("length", s.get("Length", 0)) or 0)
DecodeLength(s) ==
    LET l == DictGet(s, K.length, DictGet(s, K.Length, JInt(0)))
    IN  PyInt(IF Truthy(l) THEN l ELSE JInt(0))

\* the body of _parse_styles' loop: the dicts appended for one element
ParseOneStyle(s) ==
    IF s.t # "dict" THEN <<>>
    ELSE LET offset == DecodeOffset(s)
             length == DecodeLength(s)
             style  == NormalizeStyleName(PyStr(DictGet(s, K.style, DictGet(s, K.Style, JStr(<<>>)))))
         IN  IF offset.ok /\ length.ok /\ length.n > 0 /\ style \in KnownStyles
             THEN <<StyleDict(offset.n, length.n, style)>>
             ELSE <<>>

RECURSIVE ParseEach(_)
ParseEach(elems) ==
    IF elems = <<>> THEN <<>> ELSE ParseOneStyle(Head(elems)) \o ParseEach(Tail(elems))

\* what "for s in x" iterates over; ok = FALSE stands for the TypeError of a
\* value that is not iterable
Iterate(x) ==
    CASE x.t = "list" -> [ok |-> TRUE, elems |-> x.v]
      [] x.t = "str"  -> [ok |-> TRUE, elems |-> [i \in 1..Len(x.v) |-> JStr(<<x.v[i]>>)]]
      [] x.t = "dict" -> [ok |-> TRUE, elems |-> [i \in 1..Len(x.v) |-> JStr(x.v[i][1])]]
      [] OTHER        -> [ok |-> FALSE, elems |-> <<>>]

\* _parse_styles(raw): ok = FALSE stands for the exception it re-raises
ParseStyles(raw) ==
    IF ~Truthy(raw) THEN [ok |-> TRUE, val |-> <<>>]
    ELSE LET decoded == IF raw.t = "str" THEN JsonLoads(raw.v)
                        ELSE [ok |-> Iterate(raw).ok, val |-> JList(Iterate(raw).elems)]
         IN  IF ~decoded.ok THEN [ok |-> TRUE, val |-> <<>>]
             ELSE IF ~Iterate(decoded.val).ok THEN [ok |-> FALSE, val |-> <<>>]
             ELSE [ok |-> TRUE, val |-> ParseEach(Iterate(decoded.val).elems)]

\* a mutation of the first loop's body: the chunk is trimmed, as in the
\* line the code has commented out
ExtractOneItemTrimmed(src, s) ==
    IF s.t # "dict" THEN <<>>
    ELSE LET start  == PyInt(DictGet(s, K.offset, JNull))
             length == PyInt(DictGet(s, K.length, JNull))
             name   == DictGet(s, K.style, JStr(<<>>))
             style  == NormalizeStyleName(IF Truthy(name) THEN name.v ELSE <<>>)
             chunk  == Strip(PySlice(src, start.n, start.n + length.n))
         IN  IF ~start.ok \/ ~length.ok THEN <<>>
             ELSE IF length.n <= 0 THEN <<>>
             ELSE IF Truthy(name) /\ name.t # "str" THEN <<>>
             ELSE IF style \notin KnownStyles THEN <<>>
             ELSE IF chunk = <<>> THEN <<>>
             ELSE <<[style |-> style, pos |-> start.n, chunk |-> chunk]>>

\* the try body of extract_words_by_style's first loop: the (style, si,
\* chunk) items appended for one span
ExtractOneItem(src, s) ==
    IF s.t # "dict" THEN <<>>
    ELSE LET start  == PyInt(DictGet(s, K.offset, JNull))
             length == PyInt(DictGet(s, K.length, JNull))
             name   == DictGet(s, K.style, JStr(<<>>))
             style  == NormalizeStyleName(IF Truthy(name) THEN name.v ELSE <<>>)
             chunk  == PySlice(src, start.n, start.n + length.n)
         IN  IF ~start.ok \/ ~length.ok THEN <<>>
             ELSE IF length.n <= 0 THEN <<>>
             ELSE IF Truthy(name) /\ name.t # "str" THEN <<>>
             ELSE IF style \notin KnownStyles THEN <<>>
             ELSE IF chunk = <<>> THEN <<>>
             ELSE <<[style |-> style, pos |-> start.n, chunk |-> chunk]>>

RECURSIVE ExtractItems(_, _)
ExtractItems(src, spans) ==
    IF spans = <<>> THEN <<>>
    ELSE ExtractOneItem(src, Head(spans)) \o ExtractItems(src, Tail(spans))

RECURSIVE InsertByPos(_, _)
\* it placed after the elements of the sorted list whose pos is <= its own
InsertByPos(sorted, it) ==
    IF sorted = <<>> THEN <<it>>
    ELSE IF Head(sorted).pos <= it.pos THEN <<Head(sorted)>> \o InsertByPos(Tail(sorted), it)
    ELSE <<it>> \o sorted

\* a mutation of the sort: the items stay in the order of the annotations
SortByPosSkipped(items) == items

RECURSIVE SortByPos(_)
\* items.sort(key=lambda t: t[1]): stable
SortByPos(items) ==
    IF items = <<>> THEN <<>>
    ELSE InsertByPos(SortByPos(SubSeq(items, 1, Len(items) - 1)), items[Len(items)])

BucketOfStyle(style) ==
    IF style = W.BOLD THEN "bold" ELSE IF style = W.ITALIC THEN "italics" ELSE "underline"

EmptyBuckets == [bold |-> <<>>, italics |-> <<>>, underline |-> <<>>]

RECURSIVE FillBuckets(_, _, _)
\* the second loop: chunks appended to their bucket, a chunk whose casefold
\* is already in the bucket's seen set skipped when dedupe
FillBuckets(items, dedupe, acc) ==
    IF items = <<>> THEN acc
    ELSE LET k    == BucketOfStyle(Head(items).style)
             norm == Lower(Head(items).chunk)
             dup  == \E i \in 1..Len(acc[k]) : Lower(acc[k][i]) = norm
         IN  IF dedupe /\ dup
             THEN FillBuckets(Tail(items), dedupe, acc)
             ELSE FillBuckets(Tail(items), dedupe,
                              [acc EXCEPT ![k] = Append(@, Head(items).chunk)])

\* extract_words_by_style({"value": src, "styles": spans}, snap_to_word, dedupe);
\* snap_to_word is not read by the code
ExtractWordsByStyle(src, spans, dedupe) ==
    FillBuckets(SortByPos(ExtractItems(src, spans)), dedupe, EmptyBuckets)

(***************************************************************************)
(* One row's extraction as process_label_translation runs it: the stored   *)
(* annotation container goes through _parse_styles, its result through     *)
(* extract_words_by_style (dedupe = True)                                  *)
(***************************************************************************)
\* a field that an annotation does not have
Missing == [t |-> "missing", v |-> 0]

Annotation(o, l, st) ==
    JDict(SelectSeq(<< <<K.offset, o>>, <<K.length, l>>, <<K.style, st>> >>,
                    LAMBDA kv : kv[2] # Missing))

GoodAnnotations ==
    {Annotation(JInt(o), JInt(l), JStr(st)) :
        o \in {0, 2}, l \in {1, 2}, st \in {<<"b","o","l","d">>, <<"I","T","A","L","I","C","S">>}}
Annotations ==
    LET OddOffsets == {Missing, JNull, JInt(0 - 2), JStr(<<"1">>), JStr(<<"x">>)}
        OddLengths == {Missing, JNull, JInt(0), JInt(0 - 1), JStr(<<"x">>)}
        OddStyles ==
            {Missing, JNull, JStr(<<>>), JStr(<<"l","i","n","e">>),
             JStr(<<"s","t","r","i","k","e">>), JStr(<<"B","o","l","d","e","d">>),
             JStr(<<"i","t","a","l","i","c","i","z","e","d">>),
             JStr(<<"u","n","d","e","r","l","i","n","e","d">>),
             JStr(<<"U","n","d","e","r","l","i","n","e">>)}
    IN  GoodAnnotations
        \cup {Annotation(o, JInt(1), JStr(<<"b","o","l","d">>)) : o \in OddOffsets}
        \cup {Annotation(JInt(0), l, JStr(<<"b","o","l","d">>)) : l \in OddLengths}
        \cup {Annotation(JInt(0), JInt(1), st) : st \in OddStyles}

\* stored containers: the JSON text of a list of annotations, texts that are
\* no list, no text at all, and a list that is already structured
RawContainers ==
    {JStr(JsonDumps(JList(l))) : l \in SeqsUpTo(Annotations, MaxSpans)}
    \cup {JStr(JsonDumps(x)) : x \in {JInt(42), JInt(0), JNull, JBool(TRUE), JBool(FALSE),
                                     JStr(<<"a","b">>), Annotation(JInt(0), JInt(1), Missing)}}
    \cup {JStr(<<"[","{">>), JStr(<<"x">>), JStr(<<>>), JNull}
    \cup {JList(<<a>>) : a \in GoodAnnotations}

SourceTexts == {<<"a","b","A","B">>, <<"a","b">>, <<"a"," ",",">>}

ExtIdle ==
    /\ raw_styles = JNull
    /\ source_text = <<>>
    /\ styles = <<>>
    /\ arrays = EmptyBuckets
    /\ ext_pc = "idle"

ExtInit ==
    /\ raw_styles \in RawContainers
    /\ source_text \in SourceTexts
    /\ styles = <<>>
    /\ arrays = EmptyBuckets
    /\ ext_pc = "parse"

\* styles = _parse_styles(row.get(COL_SOURCESTYLES))
ParseStylesCall ==
    /\ ext_pc = "parse"
    /\ LET r == ParseStyles(raw_styles)
       IN  IF r.ok
           THEN styles' = r.val /\ ext_pc' = "extract"
           ELSE styles' = styles /\ ext_pc' = "raised"
    /\ UNCHANGED <<raw_styles, source_text, arrays>>
    /\ UNCHANGED <<locVars, httpVars, apiVars, batchVars, pairVars, engine, scan>>

\* arrays = extract_words_by_style(payload, snap_to_word=True, dedupe=True)
ExtractCall ==
    /\ ext_pc = "extract"
    /\ arrays' = ExtractWordsByStyle(source_text, styles, TRUE)
    /\ ext_pc' = "done"
    /\ UNCHANGED <<raw_styles, source_text, styles>>
    /\ UNCHANGED <<locVars, httpVars, apiVars, batchVars, pairVars, engine, scan>>

ExtNext == ParseStylesCall \/ ExtractCall

(***************************************************************************)
(* AlignmentServiceClient: _http_post_json_with_retries                    *)
(***************************************************************************)
\* a mutation of max_retries: one more retry
max_retries_one_more == 4 + 1

\* max_retries: the default of the parameter, which call_alignment_api
\* passes through unchanged
max_retries == 4

\* times in milliseconds: backoff = 1.0, min(backoff * 2, 8.0)
InitialBackoff == 1000
BackoffCap == 8000
\* random.uniform(0, 0.5), sampled
Jitters == {0, 250, 500}

RetryableStatus == {408, 429, 500, 502, 503, 504}

\* what one requests.post can give: an exception (connection failure,
\* timeout), or a response with a status and a body that resp.json() can or
\* cannot decode
NoResponse == [kind |-> "none", status |-> 0, json_ok |-> FALSE]
ConnectionFailure == [kind |-> "exception", status |-> 0, json_ok |-> FALSE]
Responses ==
    {ConnectionFailure}
    \cup {[kind |-> "response", status |-> st, json_ok |-> FALSE] :
            st \in RetryableStatus \cup {400, 404}}
    \cup {[kind |-> "response", status |-> 200, json_ok |-> j] : j \in BOOLEAN}

\* resp.raise_for_status() raises for 4xx and 5xx
RaiseForStatusRaises(r) == r.status >= 400 /\ r.status < 600

\* the value of the loop's first condition
RetryOnStatus(r, att) ==
    r.kind = "response" /\ r.status \in RetryableStatus /\ att < max_retries

\* the try body raises: requests.post, raise_for_status or resp.json()
TryRaises(r) ==
    \/ r.kind = "exception"
    \/ RaiseForStatusRaises(r)
    \/ ~r.json_ok

\* a mutation of the doubling: no cap
DoubleBackoffUncapped(b) == b * 2

\* backoff = min(backoff * 2, 8.0)
DoubleBackoff(b) == IF b * 2 < BackoffCap THEN b * 2 ELSE BackoffCap

HttpIdle ==
    /\ attempt = 0
    /\ backoff = InitialBackoff
    /\ resp = NoResponse
    /\ posts = 0
    /\ waits = <<>>
    /\ http_pc = "idle"

HttpInit ==
    /\ attempt = 0
    /\ backoff = InitialBackoff
    /\ resp = NoResponse
    /\ posts = 0
    /\ waits = <<>>
    /\ http_pc = "loop"

\* time.sleep(backoff + jitter); backoff = min(backoff * 2, 8.0); then the
\* next iteration, or the end of the loop and its RuntimeError
SleepAndContinue(jitter) ==
    /\ waits' = Append(waits, [base |-> backoff, jitter |-> jitter])
    /\ backoff' = DoubleBackoff(backoff)
    /\ attempt' = attempt + 1
    /\ http_pc' = IF attempt + 1 <= max_retries THEN "loop" ELSE "raised"

\* one iteration of "for attempt in range(max_retries + 1)"
PostAttempt ==
    /\ http_pc = "loop"
    /\ attempt <= max_retries
    /\ \E r \in Responses, jitter \in Jitters :
          /\ resp' = r
          /\ posts' = posts + 1
          /\ IF r.kind = "response" /\ RetryOnStatus(r, attempt)
             THEN SleepAndContinue(jitter)
             ELSE IF TryRaises(r)
                  THEN IF attempt >= max_retries
                       THEN /\ http_pc' = "raised"
                            /\ UNCHANGED <<attempt, backoff, waits>>
                       ELSE SleepAndContinue(jitter)
                  ELSE /\ http_pc' = "returned"
                       /\ UNCHANGED <<attempt, backoff, waits>>
    /\ UNCHANGED <<locVars, extVars, apiVars, batchVars, pairVars, engine, scan>>

HttpNext == PostAttempt

(***************************************************************************)
(* SpanLocator                                                             *)
(***************************************************************************)
Marker == <<"*","*","*","*">>

\* (key, style_name) pairs in the fixed processing order
StyleKeys == <<"bold", "italics", "underline">>
StyleNames == <<"BOLD", "ITALIC", "UNDERLINE">>

\* a mutation of _split_pair: the target keeps the marker
SplitPairKeepingMarker(s) ==
    IF Contains(s, Marker)
    THEN LET p == Find(s, Marker, 0)
         IN  <<PySlice(s, 0, p), PySlice(s, p, Len(s))>>
    ELSE <<s, <<>>>>

\* _split_pair: split on the first marker; a bare entry has the empty target
SplitPair(s) ==
    IF Contains(s, Marker)
    THEN LET p == Find(s, Marker, 0)
         IN  <<PySlice(s, 0, p), PySlice(s, p + Len(Marker), Len(s))>>
    ELSE <<s, <<>>>>

\* a mutation of _find_from that forgets the cursor
FindFromNoCursor(text, needle, start) == Find(text, needle, 0)

\* _find_from: exact from start, then case-insensitive from start, then
\* exact over the whole text
FindFrom(text, needle, start) ==
    LET pos1 == Find(text, needle, start)
        pos2 == Find(Lower(text), Lower(needle), start)
    IN  IF pos1 # -1 THEN pos1
        ELSE IF pos2 # -1 THEN pos2
        ELSE Find(text, needle, 0)

Placeholder(style_name, src) ==
    [style |-> style_name, source |-> src, translated_text |-> <<>>,
     offset |-> -1, length |-> 0]

\* a mutation of the loop body: an entry with an empty target never gets a
\* placeholder
LocateStepDroppingBare(entry, text, keep, cur, style_name) ==
    LET src == SplitPair(entry)[1]
        tgt == SplitPair(entry)[2]
        pos == FindFrom(text, tgt, cur)
    IN  IF tgt # <<>>
        THEN IF pos # -1
             THEN [spans |-> <<[style |-> style_name, source |-> src,
                                translated_text |-> PySlice(text, pos, pos + Len(tgt)),
                                offset |-> pos, length |-> Len(tgt)]>>,
                   cursor |-> pos + Len(tgt)]
             ELSE IF keep
                  THEN [spans |-> <<Placeholder(style_name, src)>>, cursor |-> cur]
                  ELSE [spans |-> <<>>, cursor |-> cur]
        ELSE [spans |-> <<>>, cursor |-> cur]

\* a mutation of the loop body: a match leaves the cursor where it was
LocateStepCursorKept(entry, text, keep, cur, style_name) ==
    LET src == SplitPair(entry)[1]
        tgt == SplitPair(entry)[2]
        pos == FindFrom(text, tgt, cur)
    IN  IF tgt # <<>> /\ pos # -1
        THEN [spans |-> <<[style |-> style_name, source |-> src,
                           translated_text |-> PySlice(text, pos, pos + Len(tgt)),
                           offset |-> pos, length |-> Len(tgt)]>>,
              cursor |-> cur]
        ELSE IF keep
             THEN [spans |-> <<Placeholder(style_name, src)>>, cursor |-> cur]
             ELSE [spans |-> <<>>, cursor |-> cur]

\* a mutation of the located span: it carries the target as the service
\* wrote it, not the slice of the text
LocateStepTargetCasing(entry, text, keep, cur, style_name) ==
    LET src == SplitPair(entry)[1]
        tgt == SplitPair(entry)[2]
        pos == FindFrom(text, tgt, cur)
    IN  IF tgt # <<>>
        THEN IF pos # -1
             THEN [spans |-> <<[style |-> style_name, source |-> src,
                                translated_text |-> tgt,
                                offset |-> pos, length |-> Len(tgt)]>>,
                   cursor |-> pos + Len(tgt)]
             ELSE IF keep
                  THEN [spans |-> <<Placeholder(style_name, src)>>, cursor |-> cur]
                  ELSE [spans |-> <<>>, cursor |-> cur]
        ELSE IF keep
             THEN [spans |-> <<Placeholder(style_name, src)>>, cursor |-> cur]
             ELSE [spans |-> <<>>, cursor |-> cur]

\* the body of the loop over one bucket's entries: the spans appended for
\* one entry and the cursor after it
LocateStep(entry, text, keep, cur, style_name) ==
    LET src == SplitPair(entry)[1]
        tgt == SplitPair(entry)[2]
        pos == FindFrom(text, tgt, cur)
    IN  IF tgt # <<>>
        THEN IF pos # -1
             THEN [spans |-> <<[style |-> style_name, source |-> src,
                                translated_text |-> PySlice(text, pos, pos + Len(tgt)),
                                offset |-> pos, length |-> Len(tgt)]>>,
                   cursor |-> pos + Len(tgt)]
             ELSE IF keep
                  THEN [spans |-> <<Placeholder(style_name, src)>>, cursor |-> cur]
                  ELSE [spans |-> <<>>, cursor |-> cur]
        ELSE IF keep
             THEN [spans |-> <<Placeholder(style_name, src)>>, cursor |-> cur]
             ELSE [spans |-> <<>>, cursor |-> cur]

\* inputs of one call
Texts == SeqsUpTo({"a", "A", "U+0130"}, MaxTextLen)
Entries == {<<"s">> \o Marker \o t : t \in SeqsUpTo({"a", "A"}, MaxTargetLen)} \cup {<<"s">>}
ItalicsBucket == <<<<"s">> \o Marker \o <<"a">>>>

\* a component that is not running in the specification at hand
LocIdle ==
    /\ translated_text = <<>>
    /\ alignment = [bold |-> <<>>, italics |-> <<>>, underline |-> <<>>]
    /\ keep_unmatched = FALSE
    /\ key = 4
    /\ item = 1
    /\ cursor = 0
    /\ cursors = [bold |-> 0, italics |-> 0, underline |-> 0]
    /\ out = <<>>

LocInit ==
    /\ translated_text \in Texts
    /\ \E b \in SeqsUpTo(Entries, MaxEntries) :
          alignment = [bold |-> b, italics |-> ItalicsBucket, underline |-> <<>>]
    /\ keep_unmatched \in BOOLEAN
    /\ key = 1
    /\ item = 1
    /\ cursor = 0
    /\ cursors = [bold |-> 0, italics |-> 0, underline |-> 0]
    /\ out = <<>>

\* a mutation of out.append: the span is put in front of the list
LocateEntryPrepending ==
    /\ key <= 3
    /\ item <= Len(alignment[StyleKeys[key]])
    /\ LET r == LocateStep(alignment[StyleKeys[key]][item], translated_text,
                           keep_unmatched, cursor, StyleNames[key])
       IN  /\ out' = r.spans \o out
           /\ cursor' = r.cursor
    /\ item' = item + 1
    /\ UNCHANGED <<translated_text, alignment, keep_unmatched, key, cursors>>
    /\ UNCHANGED <<httpVars, extVars, apiVars, batchVars, pairVars, engine, scan>>

\* one iteration of "for item in arr"
LocateEntry ==
    /\ key <= 3
    /\ item <= Len(alignment[StyleKeys[key]])
    /\ LET r == LocateStep(alignment[StyleKeys[key]][item], translated_text,
                           keep_unmatched, cursor, StyleNames[key])
       IN  /\ out' = out \o r.spans
           /\ cursor' = r.cursor
    /\ item' = item + 1
    /\ UNCHANGED <<translated_text, alignment, keep_unmatched, key, cursors>>
    /\ UNCHANGED <<httpVars, extVars, apiVars, batchVars, pairVars, engine, scan>>

\* a mutation of "cursor = cursors[key]": the next bucket goes on from the
\* cursor of the bucket before it
NextBucketCursorCarried ==
    /\ key <= 3
    /\ item > Len(alignment[StyleKeys[key]])
    /\ cursors' = [cursors EXCEPT ![StyleKeys[key]] = cursor]
    /\ key' = key + 1
    /\ item' = 1
    /\ cursor' = cursor
    /\ UNCHANGED <<translated_text, alignment, keep_unmatched, out>>
    /\ UNCHANGED <<httpVars, extVars, apiVars, batchVars, pairVars, engine, scan>>

\* the bucket is exhausted: cursors[key] = cursor, then the next bucket
\* starts from its own cursor
NextBucket ==
    /\ key <= 3
    /\ item > Len(alignment[StyleKeys[key]])
    /\ cursors' = [cursors EXCEPT ![StyleKeys[key]] = cursor]
    /\ key' = key + 1
    /\ item' = 1
    /\ cursor' = IF key < 3 THEN cursors[StyleKeys[key + 1]] ELSE cursor
    /\ UNCHANGED <<translated_text, alignment, keep_unmatched, out>>
    /\ UNCHANGED <<httpVars, extVars, apiVars, batchVars, pairVars, engine, scan>>

LocNext == LocateEntry \/ NextBucket

LocDone == key = 4

(***************************************************************************)
(* ResponseRecoveryParser: call_alignment_api and its helpers              *)
(***************************************************************************)

\* a mutation of _strip_code_fences: three characters are cut at both ends
\* whether or not the text is fenced
StripCodeFencesUnchecked(text) ==
    LET Cut(t) == Strip(PySlice(t, 3, Len(t) - 3))
    IN  Cut(Strip(text))

\* _strip_code_fences(text)
StripCodeFences(text) ==
    LET fence == W.fence
        \* if t.endswith(fence): t = t[:-3]; return t.strip()
        Unfence(t) ==
            Strip(IF OccursAt(t, fence, Len(t) - 3) THEN PySlice(t, 0, Len(t) - 3) ELSE t)
        \* first_line, rest = t.split("\n", 1), the language tag dropped
        Untag(t, nl) ==
            IF nl # -1 /\ Lower(Strip(PySlice(t, 0, nl))) \in {W.json, W.javascript, W.js}
            THEN PySlice(t, nl + 1, Len(t)) ELSE t
        Unwrap(t) == Unfence(Untag(t, Find(t, <<"\n">>, 0)))
        Stripped(t) ==
            IF OccursAt(t, fence, 0) /\ OccursAt(t, fence, Len(t) - 3)
            THEN Unwrap(PySlice(t, 3, Len(t))) ELSE t
    IN  Stripped(Strip(text))

\* the loop of _extract_first_json_object from Python index i on: the index
\* of the brace that brings depth back to 0, or -1.  The loop is folded over
\* the halves of the index range, which keeps the evaluation shallow.
ScanObject(text, i, depth, in_str, esc) ==
    LET \* one iteration, on the character c at index at
        Step(st, c, at) ==
            IF st.in_str
            THEN IF st.esc THEN [st EXCEPT !.esc = FALSE]
                 ELSE IF c = "\\" THEN [st EXCEPT !.esc = TRUE]
                 ELSE IF c = "\"" THEN [st EXCEPT !.in_str = FALSE]
                 ELSE st
            ELSE IF c = "\"" THEN [st EXCEPT !.in_str = TRUE]
                 ELSE IF c = "{" THEN [st EXCEPT !.depth = @ + 1]
                 ELSE IF c = "}"
                      THEN IF st.depth - 1 = 0 THEN [st EXCEPT !.depth = 0, !.last = at]
                           ELSE [st EXCEPT !.depth = @ - 1]
                 ELSE st
        \* the iterations for the indices lo .. hi - 1, up to the return
        RECURSIVE Range(_, _, _)
        Range(lo, hi, st) ==
            IF st.last # -1 \/ lo >= hi THEN st
            ELSE IF hi = lo + 1 THEN Step(st, text[lo + 1], lo)
            ELSE Range((lo + hi) \div 2, hi, Range(lo, (lo + hi) \div 2, st))
    IN  Range(i, Len(text),
              [depth |-> depth, in_str |-> in_str, esc |-> esc, last |-> -1]).last

\* a mutation of the scan: the quotes are not tracked
ExtractCountingEveryBrace(text) ==
    LET Unquoted == [n \in 1..Len(text) |-> IF text[n] = "\"" THEN "q" ELSE text[n]]
        Cut(start, last) ==
            IF last = -1 THEN [found |-> FALSE, text |-> <<>>]
            ELSE [found |-> TRUE, text |-> PySlice(text, start, last + 1)]
        From(start) ==
            IF start = -1 THEN [found |-> FALSE, text |-> <<>>]
            ELSE Cut(start, ScanObject(Unquoted, start, 0, FALSE, FALSE))
    IN  From(Find(text, <<"{">>, 0))

\* _extract_first_json_object(text): found = FALSE stands for None
ExtractFirstJsonObject(text) ==
    LET Cut(start, last) ==
            IF last = -1 THEN [found |-> FALSE, text |-> <<>>]
            ELSE [found |-> TRUE, text |-> PySlice(text, start, last + 1)]
        From(start) ==
            IF start = -1 THEN [found |-> FALSE, text |-> <<>>]
            ELSE Cut(start, ScanObject(text, start, 0, FALSE, FALSE))
    IN  From(Find(text, <<"{">>, 0))

\* _coerce_brace_list_to_array(text): found = FALSE stands for None
CoerceBraceListToArray(text) ==
    LET Strings(arr) ==
            IF /\ arr.ok
               /\ arr.val.t = "list"
               /\ \A i \in 1..Len(arr.val.v) : arr.val.v[i].t = "str"
            THEN [found |-> TRUE, arr |-> arr.val.v]
            ELSE [found |-> FALSE, arr |-> <<>>]
        Coerce(t) ==
            IF /\ OccursAt(t, <<"{">>, 0)
               /\ OccursAt(t, <<"}">>, Len(t) - 1)
               /\ ~Contains(t, <<":">>)
            THEN Strings(JsonLoads(<<"[">> \o PySlice(t, 1, -1) \o <<"]">>))
            ELSE [found |-> FALSE, arr |-> <<>>]
    IN  Coerce(Strip(text))

\* a mutation of _ensure_alignment_keys that adds the missing keys and leaves
\* the values as they came
EnsureAlignmentKeysUncoerced(obj) ==
    LET Step(o, k) == IF DictHas(o, k) THEN o ELSE DictSet(o, k, JList(<<>>))
    IN  [ok |-> TRUE, val |-> Step(Step(Step(obj, K.bold), K.italics), K.underline)]

\* _ensure_alignment_keys(obj): ok = FALSE stands for the TypeError of a
\* value that cannot be iterated
EnsureAlignmentKeys(obj) ==
    LET \* obj[k] = [str(x) for x in obj[k]]
        Stringify(o, k, it) ==
            IF ~it.ok THEN [ok |-> FALSE, val |-> o]
            ELSE [ok |-> TRUE,
                  val |-> DictSet(o, k,
                            JList([i \in 1..Len(it.elems) |-> JStr(PyStr(it.elems[i]))]))]
        Present(o, k) == Stringify(o, k, Iterate(DictGet(o, k, JNull)))
        \* if k not in obj: obj[k] = []
        Step(r, k) ==
            IF ~r.ok THEN r
            ELSE Present(IF DictHas(r.val, k) THEN r.val ELSE DictSet(r.val, k, JList(<<>>)), k)
    IN  Step(Step(Step([ok |-> TRUE, val |-> obj], K.bold), K.italics), K.underline)

\* content = data; try: content = data["choices"][0]["message"]["content"]
GetContent(body) ==
    LET Content(message) ==
            IF message.t = "dict" /\ DictHas(message, K.content)
            THEN DictGet(message, K.content, JNull) ELSE body
        Message(first) ==
            IF first.t = "dict" /\ DictHas(first, K.message)
            THEN Content(DictGet(first, K.message, JNull)) ELSE body
        First(choices) ==
            IF choices.t = "list" /\ Len(choices.v) >= 1 THEN Message(choices.v[1]) ELSE body
    IN  IF body.t = "dict" /\ DictHas(body, K.choices)
        THEN First(DictGet(body, K.choices, JNull)) ELSE body

\* a mutation of the slices: the italics are cut before the bold
SplitItalicsFirst(list, src_terms) ==
    LET bN == Len(src_terms.bold)
        iN == Len(src_terms.italics)
        uN == Len(src_terms.underline)
    IN  JDict(<< <<K.bold, JList(PySlice(list, iN, iN + bN))>>,
                 <<K.italics, JList(PySlice(list, 0, iN))>>,
                 <<K.underline, JList(PySlice(list, bN + iN, bN + iN + uN))>> >>)

\* the three slices of a list by the counts of the source terms
SplitByCounts(list, src_terms) ==
    LET bN == Len(src_terms.bold)
        iN == Len(src_terms.italics)
        uN == Len(src_terms.underline)
    IN  JDict(<< <<K.bold, JList(PySlice(list, 0, bN))>>,
                 <<K.italics, JList(PySlice(list, bN, bN + iN))>>,
                 <<K.underline, JList(PySlice(list, bN + iN, bN + iN + uN))>> >>)

\* a mutation of the raise statements: the call gives the empty alignment back
ApiRaiseDefaulted(err, stages) ==
    [ok |-> TRUE, err |-> "none", stages |-> stages, parsed |-> JNull,
     obj |-> JDict(<< <<K.bold, JList(<<>>)>>, <<K.italics, JList(<<>>)>>,
                      <<K.underline, JList(<<>>)>> >>)]

\* an exception leaves the call
ApiRaise(err, stages) ==
    [ok |-> FALSE, obj |-> JNull, err |-> err, stages |-> stages, parsed |-> JNull]
\* return _ensure_alignment_keys(obj), which raises when r.ok = FALSE
ApiReturn(r, stages) ==
    IF r.ok THEN [ok |-> TRUE, obj |-> r.val, err |-> "none", stages |-> stages, parsed |-> JNull]
    ELSE ApiRaise("TypeError", stages)

\* a mutation of the recovery chain: the first balanced object is extracted
\* and decoded whether or not the direct decode failed
RecoverExtractingAlways(cont, src_terms) ==
    LET total == Len(src_terms.bold) + Len(src_terms.italics) + Len(src_terms.underline)
        \* lines 529-551: what was decoded becomes the result
        Finish(decoded, stages) ==
            IF decoded = JNull THEN ApiRaise("ValueError", stages)
            ELSE IF decoded.t = "list"
                 THEN ApiReturn(EnsureAlignmentKeys(SplitByCounts(decoded.v, src_terms)), stages)
            ELSE IF decoded.t = "dict" THEN ApiReturn(EnsureAlignmentKeys(decoded), stages)
            ELSE ApiRaise("ValueError", stages)
        \* lines 510-527: the brace-list fallback, when nothing was decoded
        Brace(brace, stages) ==
            IF brace.found /\ Len(brace.arr) = total
            THEN ApiReturn(EnsureAlignmentKeys(SplitByCounts(brace.arr, src_terms)), stages)
            ELSE Finish(JNull, stages)
        Fallback(decoded, raw, stages) ==
            IF decoded = JNull
            THEN Brace(CoerceBraceListToArray(raw), Append(stages, "brace"))
            ELSE [Finish(decoded, stages) EXCEPT !.parsed = decoded]
        \* lines 502-507: the first balanced object of the text, decoded
        Second(r) == IF r.ok THEN r.val ELSE JNull
        Extract(maybe) == IF maybe.found THEN Second(JsonLoads(maybe.text)) ELSE JNull
        \* lines 497-500: the direct decode
        Direct(direct, raw) ==
            LET Later(second) ==
                    IF direct.ok /\ second = JNull THEN direct.val ELSE second
            IN  Fallback(Later(Extract(ExtractFirstJsonObject(raw))), raw,
                         <<"direct", "extract">>)
        Chain(raw) == Direct(JsonLoads(raw), raw)
    IN  IF cont.t # "str" THEN ApiRaise("UnboundLocalError", <<>>)
        ELSE Chain(StripCodeFences(cont.v))

\* a mutation of the flat-list branch: a list whose length is not the sum of
\* the counts is refused, as a brace list is
RecoverCheckingListLength(cont, src_terms) ==
    LET total == Len(src_terms.bold) + Len(src_terms.italics) + Len(src_terms.underline)
        \* lines 529-551: what was decoded becomes the result
        Finish(decoded, stages) ==
            IF decoded = JNull THEN ApiRaise("ValueError", stages)
            ELSE IF decoded.t = "list" /\ Len(decoded.v) # total
                 THEN ApiRaise("ValueError", stages)
            ELSE IF decoded.t = "list"
                 THEN ApiReturn(EnsureAlignmentKeys(SplitByCounts(decoded.v, src_terms)), stages)
            ELSE IF decoded.t = "dict" THEN ApiReturn(EnsureAlignmentKeys(decoded), stages)
            ELSE ApiRaise("ValueError", stages)
        \* lines 510-527: the brace-list fallback, when nothing was decoded
        Brace(brace, stages) ==
            IF brace.found /\ Len(brace.arr) = total
            THEN ApiReturn(EnsureAlignmentKeys(SplitByCounts(brace.arr, src_terms)), stages)
            ELSE Finish(JNull, stages)
        Fallback(decoded, raw, stages) ==
            IF decoded = JNull
            THEN Brace(CoerceBraceListToArray(raw), Append(stages, "brace"))
            ELSE [Finish(decoded, stages) EXCEPT !.parsed = decoded]
        \* lines 502-507: the first balanced object of the text, decoded
        Second(r) == IF r.ok THEN r.val ELSE JNull
        Extract(maybe) == IF maybe.found THEN Second(JsonLoads(maybe.text)) ELSE JNull
        \* lines 497-500: the direct decode
        Direct(direct, raw) ==
            IF direct.ok THEN Fallback(direct.val, raw, <<"direct">>)
            ELSE Fallback(Extract(ExtractFirstJsonObject(raw)), raw, <<"direct", "extract">>)
        Chain(raw) == Direct(JsonLoads(raw), raw)
    IN  IF cont.t # "str" THEN ApiRaise("UnboundLocalError", <<>>)
        ELSE Chain(StripCodeFences(cont.v))

\* call_alignment_api from "content" on; stages lists the recovery stages run
\* and parsed is the local of that name at the end
Recover(cont, src_terms) ==
    LET total == Len(src_terms.bold) + Len(src_terms.italics) + Len(src_terms.underline)
        \* lines 529-551: what was decoded becomes the result
        Finish(decoded, stages) ==
            IF decoded = JNull THEN ApiRaise("ValueError", stages)
            ELSE IF decoded.t = "list"
                 THEN ApiReturn(EnsureAlignmentKeys(SplitByCounts(decoded.v, src_terms)), stages)
            ELSE IF decoded.t = "dict" THEN ApiReturn(EnsureAlignmentKeys(decoded), stages)
            ELSE ApiRaise("ValueError", stages)
        \* lines 510-527: the brace-list fallback, when nothing was decoded
        Brace(brace, stages) ==
            IF brace.found /\ Len(brace.arr) = total
            THEN ApiReturn(EnsureAlignmentKeys(SplitByCounts(brace.arr, src_terms)), stages)
            ELSE Finish(JNull, stages)
        Fallback(decoded, raw, stages) ==
            IF decoded = JNull
            THEN Brace(CoerceBraceListToArray(raw), Append(stages, "brace"))
            ELSE [Finish(decoded, stages) EXCEPT !.parsed = decoded]
        \* lines 502-507: the first balanced object of the text, decoded
        Second(r) == IF r.ok THEN r.val ELSE JNull
        Extract(maybe) == IF maybe.found THEN Second(JsonLoads(maybe.text)) ELSE JNull
        \* lines 497-500: the direct decode
        Direct(direct, raw) ==
            IF direct.ok THEN Fallback(direct.val, raw, <<"direct">>)
            ELSE Fallback(Extract(ExtractFirstJsonObject(raw)), raw, <<"direct", "extract">>)
        Chain(raw) == Direct(JsonLoads(raw), raw)
    IN  IF cont.t # "str" THEN ApiRaise("UnboundLocalError", <<>>)
        ELSE Chain(StripCodeFences(cont.v))

\* call_alignment_api(api_url, ..., bold_array, italics_array, underlined_array)
\* given what the POST with retries comes back with
CallAlignmentApi(url, outcome, src_terms) ==
    IF ~Truthy(url) THEN ApiRaise("RuntimeError", <<>>)
    ELSE IF outcome.kind = "raise" THEN ApiRaise("HTTPError", <<>>)
    ELSE Recover(GetContent(outcome.data), src_terms)

\* what the service content decodes to in the calls of the model: objects
\* with all, some or none of the three keys, with a key of their own, with
\* values that are not lists of strings; flat lists; scalars
DecodedValues ==
    LET pair(a, b) == JStr(a \o Marker \o b)
        none == JList(<<>>)
    IN  { JDict(<< <<K.bold, JList(<<pair(<<"s">>, <<"a">>)>>)>>,
                   <<K.italics, none>>, <<K.underline, none>> >>),
          JDict(<< <<K.underline, none>>, <<K.bold, JList(<<JStr(<<"a">>)>>)>>,
                   <<K.italics, none>> >>),
          JDict(<< <<K.italics, JList(<<JStr(<<"a">>)>>)>> >>),
          JDict(<< <<K.underline, JList(<<pair(<<"u">>, <<"b">>)>>)>>,
                   <<<<"n","o","t","e">>, JStr(<<"x">>)>> >>),
          JDict(<< <<<<"x">>, JInt(1)>>, <<K.bold, JList(<<JInt(1), JNull, JStr(<<"a">>)>>)>> >>),
          JDict(<< <<K.bold, JList(<<JBool(TRUE), JList(<<JStr(<<"b">>)>>)>>)>> >>),
          JDict(<< <<K.bold, JStr(<<"a","b">>)>> >>),
          JDict(<< <<K.italics, JDict(<< <<<<"k">>, JInt(1)>> >>)>> >>),
          JDict(<< <<K.bold, JInt(3)>> >>),
          JDict(<< <<K.underline, JNull>> >>),
          JDict(<<>>),
          JList(<<pair(<<"s">>, <<"a">>), pair(<<"t">>, <<"b">>)>>),
          JList(<<JStr(<<"a">>), JStr(<<"b">>), JStr(<<"c">>), JStr(<<"d">>)>>),
          JList(<<JInt(1)>>),
          none, JInt(42), JNull, JBool(TRUE), JStr(<<"x">>) }

\* texts that no recovery stage decodes
Unrecoverable ==
    { <<>>, <<"a", "b", "c">>, <<"{">>,
      <<"{", "\"", "a", "\"", ",", "1", "}">>,
      <<"{", "\"", "a", ":", "b", "\"", "}">>,
      <<"{", "\"", "b", "o", "l", "d", "\"", ":", " ", "[">> }

\* the service content as text: the encodings of DecodedValues and brace
\* lists, bare, fenced, inside prose and inside whitespace, and texts that
\* are no JSON at all
Contents ==
    LET BraceList(arr) ==
            <<"{">> \o Join([i \in 1..Len(arr) |-> JsonString(arr[i])], <<",">>) \o <<"}">>
        Dressed(j) ==
            { j,
              W.fence \o W.json \o <<"\n">> \o j \o <<"\n">> \o W.fence,
              W.fence \o j \o W.fence,
              <<"O", "K", ":", " ">> \o j \o <<" ", ".">>,
              <<" ">> \o j \o <<"\n">> }
    IN  UNION {Dressed(JsonDumps(v)) : v \in DecodedValues}
        \cup UNION {Dressed(BraceList(a)) :
                      a \in {<<<<"a">>>>, <<<<"a">>, <<"b">>>>, <<<<"a">>, <<"b">>, <<"c">>>>,
                             <<<<"s">> \o Marker \o <<"a">>, <<"t">> \o Marker \o <<"b">>>>,
                             <<<<"a">>, <<"b", ":", "c">>>>}}
        \cup Unrecoverable

\* the chat-completion envelope {"choices": [{"message": {"content": c}}]}
Envelope(c) ==
    JDict(<< <<K.choices,
               JList(<<JDict(<< <<K.message, JDict(<< <<K.content, c>> >>)>> >>)>>)>> >>)

\* the JSON body of the service's answer: the envelope around a text content
\* or a structured content, and bodies without the envelope
ServiceData ==
    {Envelope(JStr(c)) : c \in Contents}
        \cup {Envelope(v) : v \in {d \in DecodedValues : d.t # "str"}}
        \cup { JDict(<< <<K.choices, JList(<<>>)>> >>),
               JDict(<< <<K.bold, JList(<<JStr(<<"a">>)>>)>> >>),
               JList(<<>>), JNull,
               JStr(<<"{", "\"", "b", "o", "l", "d", "\"", ":", " ", "[", "]", "}">>) }

\* bold_array, italics_array and underlined_array of the call
TermLists ==
    { [bold |-> <<>>, italics |-> <<>>, underline |-> <<>>],
      [bold |-> <<<<"s">>>>, italics |-> <<>>, underline |-> <<>>],
      [bold |-> <<<<"s">>>>, italics |-> <<<<"t">>>>, underline |-> <<>>],
      [bold |-> <<<<"s">>>>, italics |-> <<<<"t">>>>, underline |-> <<<<"u">>>>] }

ApiIdle ==
    /\ api_url = JNull
    /\ terms = [bold |-> <<>>, italics |-> <<>>, underline |-> <<>>]
    /\ data = JNull
    /\ content = JNull
    /\ parsed = JNull
    /\ api_obj = JNull
    /\ api_err = "none"
    /\ api_stages = <<>>
    /\ http_calls = 0
    /\ api_pc = "idle"

\* EV__APIM_URL is unset, empty or set
ApiInit ==
    /\ api_url \in {JNull, JStr(<<>>), JStr(<<"u">>)}
    /\ terms \in TermLists
    /\ data = JNull
    /\ content = JNull
    /\ parsed = JNull
    /\ api_obj = JNull
    /\ api_err = "none"
    /\ api_stages = <<>>
    /\ http_calls = 0
    /\ api_pc = "start"

\* a mutation of the api_url check: the call goes on to the POST
ApiCheckUrlSkipped ==
    /\ api_pc = "start"
    /\ api_pc' = "post"
    /\ UNCHANGED <<api_url, terms, data, content, parsed, api_obj, api_err, api_stages,
                   http_calls>>
    /\ UNCHANGED <<locVars, httpVars, extVars, batchVars, pairVars, engine, scan>>

\* if not api_url: raise RuntimeError
ApiCheckUrl ==
    /\ api_pc = "start"
    /\ IF Truthy(api_url)
       THEN api_pc' = "post" /\ api_err' = api_err
       ELSE api_pc' = "raised" /\ api_err' = "RuntimeError"
    /\ UNCHANGED <<api_url, terms, data, content, parsed, api_obj, api_stages, http_calls>>
    /\ UNCHANGED <<locVars, httpVars, extVars, batchVars, pairVars, engine, scan>>

\* data = _http_post_json_with_retries(...), then the content of the envelope
ApiPost ==
    /\ api_pc = "post"
    /\ http_calls' = http_calls + 1
    /\ \/ /\ api_pc' = "raised"
          /\ api_err' = "HTTPError"
          /\ UNCHANGED <<data, content>>
       \/ \E d \in ServiceData :
             /\ data' = d
             /\ content' = GetContent(d)
             /\ api_pc' = "recover"
             /\ api_err' = api_err
    /\ UNCHANGED <<api_url, terms, parsed, api_obj, api_stages>>
    /\ UNCHANGED <<locVars, httpVars, extVars, batchVars, pairVars, engine, scan>>

\* the recovery chain and the return
ApiRecover ==
    /\ api_pc = "recover"
    /\ LET r == Recover(content, terms)
       IN  /\ parsed' = r.parsed
           /\ api_obj' = r.obj
           /\ api_err' = r.err
           /\ api_stages' = r.stages
           /\ api_pc' = IF r.ok THEN "returned" ELSE "raised"
    /\ UNCHANGED <<api_url, terms, data, content, http_calls>>
    /\ UNCHANGED <<locVars, httpVars, extVars, batchVars, pairVars, engine, scan>>

ApiNext == ApiCheckUrl \/ ApiPost \/ ApiRecover

(***************************************************************************)
(* BatchOrchestrator: process_label_translation and                        *)
(* process_product_registration                                            *)
(***************************************************************************)

\* a mutation of the positional pairing: the empty entries are dropped
\* before the sources are counted off
PairAfterDropping(alignment_obj, source_terms) ==
    LET Items(v) == IF Truthy(v) THEN [i \in 1..Len(v.v) |-> v.v[i].v] ELSE <<>>
        Zip(items, srcs) ==
            [j \in 1..Min({Len(items), Len(srcs)}) |-> srcs[j] \o Marker \o items[j]]
        Fixed(items, srcs) ==
            IF items = <<>> THEN <<>>
            ELSE IF \E i \in 1..Len(items) : Contains(items[i], Marker) THEN items
            ELSE Zip(SelectSeq(items, LAMBDA x : x # <<>>), srcs)
    IN  [bold      |-> Fixed(Items(DictGet(alignment_obj, K.bold, JList(<<>>))),
                             source_terms.bold),
         italics   |-> Fixed(Items(DictGet(alignment_obj, K.italics, JList(<<>>))),
                             source_terms.italics),
         underline |-> Fixed(Items(DictGet(alignment_obj, K.underline, JList(<<>>))),
                             source_terms.underline)]

\* a mutation of the positional pairing: every unmarked entry is paired,
\* also in a bucket that holds a marked entry
PairEveryUnmarked(alignment_obj, source_terms) ==
    LET Items(v) == IF Truthy(v) THEN [i \in 1..Len(v.v) |-> v.v[i].v] ELSE <<>>
        Fixed(items, srcs) ==
            [i \in 1..Len(items) |->
                IF Contains(items[i], Marker) \/ i > Len(srcs) THEN items[i]
                ELSE srcs[i] \o Marker \o items[i]]
    IN  [bold      |-> Fixed(Items(DictGet(alignment_obj, K.bold, JList(<<>>))),
                             source_terms.bold),
         italics   |-> Fixed(Items(DictGet(alignment_obj, K.italics, JList(<<>>))),
                             source_terms.italics),
         underline |-> Fixed(Items(DictGet(alignment_obj, K.underline, JList(<<>>))),
                             source_terms.underline)]

\* _pair_positionally_if_needed(alignment, source_terms)
PairPositionallyIfNeeded(alignment_obj, source_terms) ==
    LET Items(v) == IF Truthy(v) THEN [i \in 1..Len(v.v) |-> v.v[i].v] ELSE <<>>
        Paired(items, srcs, idx) ==
            [j \in 1..Len(idx) |-> srcs[idx[j]] \o Marker \o items[idx[j]]]
        Fixed(items, srcs) ==
            IF items = <<>> THEN <<>>
            ELSE IF \E i \in 1..Len(items) : Contains(items[i], Marker) THEN items
            ELSE Paired(items, srcs,
                        SelectSeq([i \in 1..Min({Len(items), Len(srcs)}) |-> i],
                                  LAMBDA i : items[i] # <<>>))
    IN  [bold      |-> Fixed(Items(DictGet(alignment_obj, K.bold, JList(<<>>))),
                             source_terms.bold),
         italics   |-> Fixed(Items(DictGet(alignment_obj, K.italics, JList(<<>>))),
                             source_terms.italics),
         underline |-> Fixed(Items(DictGet(alignment_obj, K.underline, JList(<<>>))),
                             source_terms.underline)]

RECURSIVE LocateBucket(_, _, _, _, _)
\* "for item in arr" of transform_alignment_to_styles, for one bucket
LocateBucket(arr, text, keep_flag, cur, style_name) ==
    LET Rest(r) == r.spans \o LocateBucket(Tail(arr), text, keep_flag, r.cursor, style_name)
    IN  IF arr = <<>> THEN <<>>
        ELSE Rest(LocateStep(Head(arr), text, keep_flag, cur, style_name))

\* transform_alignment_to_styles(alignment, translated_text, keep_unmatched):
\* each bucket starts from its own cursor 0
TransformAlignmentToStyles(fixed, text, keep_flag) ==
    LocateBucket(fixed.bold, text, keep_flag, 0, StyleNames[1])
    \o LocateBucket(fixed.italics, text, keep_flag, 0, StyleNames[2])
    \o LocateBucket(fixed.underline, text, keep_flag, 0, StyleNames[3])

\* a mutation of the call: an error of the alignment call is swallowed and
\* no span is given back
AlignAndLocateSwallowing(src_text, parsed_styles, text, url, outcome, keep_flag) ==
    LET Located(r, extracted) ==
            IF r.ok
            THEN [ok |-> TRUE, err |-> "none",
                  spans |-> TransformAlignmentToStyles(
                                PairPositionallyIfNeeded(r.obj, extracted), text, keep_flag)]
            ELSE [ok |-> TRUE, err |-> "none", spans |-> <<>>]
        Called(extracted) == Located(CallAlignmentApi(url, outcome, extracted), extracted)
    IN  Called(ExtractWordsByStyle(src_text, parsed_styles, TRUE))

\* align_styled_terms_with_translation, then transform_alignment_to_styles,
\* as the batch loop runs them for one pair: ok = FALSE stands for the
\* exception that leaves the loop
AlignAndLocate(src_text, parsed_styles, text, url, outcome, keep_flag) ==
    LET Located(r, extracted) ==
            IF r.ok
            THEN [ok |-> TRUE, err |-> "none",
                  spans |-> TransformAlignmentToStyles(
                                PairPositionallyIfNeeded(r.obj, extracted), text, keep_flag)]
            ELSE [ok |-> FALSE, err |-> r.err, spans |-> <<>>]
        Called(extracted) == Located(CallAlignmentApi(url, outcome, extracted), extracted)
    IN  Called(ExtractWordsByStyle(src_text, parsed_styles, TRUE))

\* one label of the translation table with Markdown emphasis: its source
\* text and stored annotation, the translated text of one language, and the
\* content the alignment service answers with
Scenario ==
    [value |-> <<"T", "h", "e", " ", "*", "*", "B", "o", "l", "d", "*", "*", " ", "w", "o", "r", "d">>,
     sourcestyles |->
         JStr(JsonDumps(JList(<<Annotation(JInt(6), JInt(4), JStr(W.BOLD))>>))),
     translated |-> <<"L", "e", " ", "m", "o", "t", " ", "*", "*", "G", "r", "a", "s", "*", "*">>,
     content |->
         <<"{","\"","b","o","l","d","\"",":","[","\"","B","o","l","d">>
         \o <<"*","*","*","*","G","r","a","s","\"","]",",","\"","i","t">>
         \o <<"a","l","i","c","s","\"",":","[","]",",","\"","u","n","d">>
         \o <<"e","r","l","i","n","e","\"",":","[","]","}">>]

\* the rows the record store returns: a source text and its stored
\* annotation container
BatchRows ==
    { [value |-> Scenario.value, sourcestyles |-> Scenario.sourcestyles],
      [value |-> <<"a", "b">>, sourcestyles |-> JNull],
      [value |-> <<"a", "b">>, sourcestyles |-> JStr(<<"0">>)] }

\* the translated text a row holds for one language
BatchTexts == {JNull, JStr(<<" ">>), JStr(<<" ">> \o Scenario.translated)}

\* what the POST with retries comes back with for one pair
BatchOutcomes ==
    {[kind |-> "raise", data |-> JNull]}
    \cup {[kind |-> "json", data |-> Envelope(JStr(c))] :
            c \in Unrecoverable
                  \cup {Scenario.content,
                        JsonDumps(JDict(<< <<K.bold, JList(<<JStr(<<"G","r","a","s">>)>>)>> >>)),
                        <<"{", "\"", "G", "r", "a", "s", "\"", "}">>,
                        <<"{", "\"", "a", "\"", ",", "\"", "b", "\"", "}">>}}
    \cup {[kind |-> "json",
           data |-> Envelope(JDict(<< <<K.bold, JList(<<JStr(<<"G","r","a","s">>)>>)>> >>))]}

\* no exception so far, and no alignment call for the pair at hand
NoFailure == [kind |-> "none", row |-> 0, lang |-> 0]
NoAnswer == [kind |-> "none", data |-> JNull, terms |-> EmptyBuckets, text |-> <<>>]

BatchIdle ==
    /\ processor = "none"
    /\ APIM_URL = JNull
    /\ batch_keep = FALSE
    /\ legal_rows = 0
    /\ langs = 0
    /\ row = 1
    /\ lang = 1
    /\ source = <<>>
    /\ row_styles = <<>>
    /\ calls = <<>>
    /\ answer = NoAnswer
    /\ written = <<>>
    /\ summary = [records_updated |-> 0, skipped_no_translation |-> 0]
    /\ failure = NoFailure
    /\ batch_pc = "idle"

\* a batch of legal_rows rows; langs is the number of language order rows of
\* the case
BatchInit ==
    /\ processor \in {"labeltranslation", "productregistration"}
    /\ APIM_URL \in {JNull, JStr(<<"u">>)}
    /\ batch_keep \in BOOLEAN
    /\ legal_rows \in 0..MaxRows
    /\ langs \in 0..MaxLangs
    /\ row = 1
    /\ lang = 1
    /\ source = <<>>
    /\ row_styles = <<>>
    /\ calls = <<>>
    /\ answer = NoAnswer
    /\ written = <<>>
    /\ summary = [records_updated |-> 0, skipped_no_translation |-> 0]
    /\ failure = NoFailure
    /\ batch_pc = "start"

\* the target columns of one row: one per language, or the single
\* translated-text column of a product registration
Columns == IF processor = "productregistration" THEN 1 ELSE langs

\* if not langs: return summary
BatchStart ==
    /\ batch_pc = "start"
    /\ batch_pc' = IF langs = 0 THEN "returned" ELSE "row"
    /\ UNCHANGED <<processor, APIM_URL, batch_keep, legal_rows, langs, row, lang, source,
                   row_styles, calls, answer, written, summary, failure>>
    /\ UNCHANGED <<locVars, httpVars, extVars, apiVars, pairVars, engine, scan>>

\* for row in legal_rows: source_text = ..., styles = _parse_styles(...)
NextRow ==
    /\ batch_pc = "row"
    /\ row <= legal_rows
    /\ \E r \in BatchRows :
          LET Parsed(p) ==
                  IF p.ok
                  THEN /\ source' = r.value
                       /\ row_styles' = p.val
                       /\ batch_pc' = "pair"
                       /\ failure' = failure
                  ELSE /\ failure' = [kind |-> "styles", row |-> row, lang |-> 0]
                       /\ batch_pc' = "raised"
                       /\ UNCHANGED <<source, row_styles>>
          IN  Parsed(ParseStyles(r.sourcestyles))
    /\ lang' = 1
    /\ UNCHANGED <<processor, APIM_URL, batch_keep, legal_rows, langs, row, calls, answer, written,
                   summary>>
    /\ UNCHANGED <<locVars, httpVars, extVars, apiVars, pairVars, engine, scan>>

\* the body of the loop for one (row, language) pair: the alignment call and
\* the span location when there is a translated text, then patch_row and
\* records_updated += 1; stored = FALSE stands for a patch_row that raises
ProcessPair ==
    /\ batch_pc = "pair"
    /\ \E cell \in BatchTexts, outcome \in BatchOutcomes, stored \in BOOLEAN :
          LET translated == Strip(IF Truthy(cell) THEN cell.v ELSE <<>>)
              Advance ==
                  IF lang < Columns
                  THEN lang' = lang + 1 /\ row' = row /\ batch_pc' = "pair"
                  ELSE lang' = lang /\ row' = row + 1 /\ batch_pc' = "row"
              Raise(kind) ==
                  /\ failure' = [kind |-> kind, row |-> row, lang |-> lang]
                  /\ batch_pc' = "raised"
                  /\ UNCHANGED <<row, lang>>
              Patch(result_styles, skipped) ==
                  IF stored
                  THEN /\ written' = Append(written, [row |-> row, lang |-> lang,
                                                      value |-> result_styles])
                       /\ summary' = [records_updated |-> summary.records_updated + 1,
                                      skipped_no_translation |->
                                          summary.skipped_no_translation + skipped]
                       /\ failure' = failure
                       /\ Advance
                  ELSE /\ written' = written
                       /\ summary' = [summary EXCEPT !.skipped_no_translation = @ + skipped]
                       /\ Raise("store")
              Aligned(r) ==
                  IF r.ok THEN Patch(r.spans, 0)
                  ELSE /\ Raise(r.err)
                       /\ UNCHANGED <<written, summary>>
          IN  IF translated # <<>>
              THEN /\ calls' = Append(calls, <<row, lang>>)
                   /\ answer' = [kind |-> outcome.kind, data |-> outcome.data,
                                 terms |-> ExtractWordsByStyle(source, row_styles, TRUE),
                                 text |-> translated]
                   /\ Aligned(AlignAndLocate(source, row_styles, translated, APIM_URL,
                                             outcome, batch_keep))
              ELSE /\ calls' = calls
                   /\ answer' = NoAnswer
                   /\ Patch(<<>>, 1)
    /\ UNCHANGED <<processor, APIM_URL, batch_keep, legal_rows, langs, source, row_styles>>
    /\ UNCHANGED <<locVars, httpVars, extVars, apiVars, pairVars, engine, scan>>

\* the rows are exhausted: return summary
BatchReturn ==
    /\ batch_pc = "row"
    /\ row > legal_rows
    /\ batch_pc' = "returned"
    /\ UNCHANGED <<processor, APIM_URL, batch_keep, legal_rows, langs, row, lang, source,
                   row_styles, calls, answer, written, summary, failure>>
    /\ UNCHANGED <<locVars, httpVars, extVars, apiVars, pairVars, engine, scan>>

BatchNext == BatchStart \/ NextRow \/ ProcessPair \/ BatchReturn

(***************************************************************************)
(* One call of _pair_positionally_if_needed, as                            *)
(* align_styled_terms_with_translation makes it on the result of           *)
(* call_alignment_api and the extracted source terms                       *)
(***************************************************************************)

\* the entries of a bucket of the service's result: bare targets, the empty
\* string, marked pairs
PairBuckets ==
    SeqsUpTo({<<>>, <<"a">>, <<"b">>, <<"s">> \o Marker \o <<"a">>}, MaxBucket)

PairIdle ==
    /\ raw_alignment = JNull
    /\ src_arrays = EmptyBuckets
    /\ fixed_alignment = EmptyBuckets
    /\ pair_pc = "idle"

\* bold and italics buckets of every shape against 0 to 3 bold source terms
\* and one italics source term; the underline bucket is empty
PairInit ==
    /\ \E b \in PairBuckets, i \in PairBuckets :
          raw_alignment =
              JDict(<< <<K.bold, JList([n \in 1..Len(b) |-> JStr(b[n])])>>,
                       <<K.italics, JList([n \in 1..Len(i) |-> JStr(i[n])])>>,
                       <<K.underline, JList(<<>>)>> >>)
    /\ \E k \in 0..3 :
          src_arrays = [bold |-> SubSeq(<<<<"S">>, <<"T">>, <<"U">>>>, 1, k),
                        italics |-> <<<<"V">>>>, underline |-> <<>>]
    /\ fixed_alignment = EmptyBuckets
    /\ pair_pc = "call"

\* fixed_alignment = _pair_positionally_if_needed(raw_alignment, arrays)
PairCall ==
    /\ pair_pc = "call"
    /\ fixed_alignment' = PairPositionallyIfNeeded(raw_alignment, src_arrays)
    /\ pair_pc' = "done"
    /\ UNCHANGED <<raw_alignment, src_arrays>>
    /\ UNCHANGED <<locVars, httpVars, extVars, apiVars, batchVars, engine, scan>>

(***************************************************************************)
(* Two calls of the alignment engine for different (row, language) pairs,  *)
(* run concurrently: each call has the locals of                           *)
(* align_styled_terms_with_translation and transform_alignment_to_styles,  *)
(* and the steps of the two calls interleave                               *)
(***************************************************************************)

\* a mutation: the cursor is one module-level variable, that of call 1
SharedCursor(all, c) == all[1].cursor

\* cursor = cursors[key], a local of the call (lines 642, 650)
CallCursor(all, c) == all[c].cursor

\* the locals of a call that was given the service's bold bucket b for the
\* translated text t
EngineCall(t, b, k) ==
    [text |-> t,
     raw |-> JDict(<< <<K.bold, JList([n \in 1..Len(b) |-> JStr(b[n])])>>,
                      <<K.italics, JList(<<JStr(ItalicsBucket[1])>>)>>,
                      <<K.underline, JList(<<>>)>> >>),
     src |-> [bold |-> [n \in 1..Len(b) |-> <<"S">>], italics |-> <<<<"V">>>>,
              underline |-> <<>>],
     keep_flag |-> k,
     fixed |-> EmptyBuckets,
     key |-> 1, item |-> 1, cursor |-> 0,
     cursors |-> [bold |-> 0, italics |-> 0, underline |-> 0],
     out |-> <<>>,
     pc |-> "align"]

EngineIdle == engine = <<>>

\* call 1 with every text and bold bucket of full length, call 2 with a text
\* that holds its target twice
EngineInit ==
    \E t \in [1..MaxTextLen -> {"a", "A"}],
       b \in [1..MaxEntries -> {<<"s">>, <<"s">> \o Marker \o <<"a">>,
                                <<"s">> \o Marker \o <<"A">>}],
       k1 \in BOOLEAN, k2 \in BOOLEAN :
        engine = <<EngineCall(t, b, k1),
                   EngineCall(<<"a", "a">>,
                              <<<<"s">> \o Marker \o <<"a">>, <<"s">> \o Marker \o <<"a">>>>,
                              k2)>>

\* fixed_alignment = _pair_positionally_if_needed(raw_alignment, arrays), then
\* the entry of transform_alignment_to_styles
EngineAlign(c) ==
    /\ engine[c].pc = "align"
    /\ engine' = [engine EXCEPT
                     ![c].fixed = PairPositionallyIfNeeded(engine[c].raw, engine[c].src),
                     ![c].pc = "locate"]
    /\ UNCHANGED <<locVars, httpVars, extVars, apiVars, batchVars, pairVars, scan>>

\* one iteration of "for item in arr" in call c
EngineLocate(c) ==
    /\ engine[c].pc = "locate"
    /\ engine[c].item <= Len(engine[c].fixed[StyleKeys[engine[c].key]])
    /\ LET me == engine[c]
           r == LocateStep(me.fixed[StyleKeys[me.key]][me.item], me.text, me.keep_flag,
                           CallCursor(engine, c), StyleNames[me.key])
       IN  engine' = [engine EXCEPT ![c].out = @ \o r.spans,
                                    ![c].cursor = r.cursor,
                                    ![c].item = @ + 1]
    /\ UNCHANGED <<locVars, httpVars, extVars, apiVars, batchVars, pairVars, scan>>

\* cursors[key] = cursor, then the next bucket or the return of call c
EngineNextBucket(c) ==
    /\ engine[c].pc = "locate"
    /\ engine[c].item > Len(engine[c].fixed[StyleKeys[engine[c].key]])
    /\ LET me == engine[c]
       IN  engine' = [engine EXCEPT
                         ![c].cursors = [@ EXCEPT ![StyleKeys[me.key]] = me.cursor],
                         ![c].cursor = IF me.key < 3 THEN me.cursors[StyleKeys[me.key + 1]]
                                       ELSE me.cursor,
                         ![c].key = IF me.key < 3 THEN me.key + 1 ELSE me.key,
                         ![c].item = IF me.key < 3 THEN 1 ELSE me.item,
                         ![c].pc = IF me.key < 3 THEN "locate" ELSE "done"]
    /\ UNCHANGED <<locVars, httpVars, extVars, apiVars, batchVars, pairVars, scan>>

EngineNext ==
    \E c \in {1, 2} : EngineAlign(c) \/ EngineLocate(c) \/ EngineNextBucket(c)

(***************************************************************************)
(* One call of _extract_first_json_object on a text of braces, quotes,     *)
(* backslashes and letters                                                 *)
(***************************************************************************)
MaxScanLen == 6

ScanIdle == scan = [text |-> <<>>, result |-> [found |-> FALSE, text |-> <<>>], pc |-> "idle"]

ScanInit ==
    \E t \in SeqsUpTo({"{", "}", "\"", "\\", "a"}, MaxScanLen) :
        scan = [text |-> t, result |-> [found |-> FALSE, text |-> <<>>], pc |-> "call"]

ScanCall ==
    /\ scan.pc = "call"
    /\ scan' = [scan EXCEPT !.result = ExtractFirstJsonObject(scan.text), !.pc = "returned"]
    /\ UNCHANGED <<locVars, httpVars, extVars, apiVars, batchVars, pairVars, engine>>

(***************************************************************************)
(* Specifications: one per component, the other components idle            *)
(***************************************************************************)
InitLocate == LocInit /\ HttpIdle /\ ExtIdle /\ ApiIdle /\ BatchIdle /\ PairIdle /\ EngineIdle /\ ScanIdle
SpecLocate == InitLocate /\ [][LocNext]_vars

InitHttp == HttpInit /\ LocIdle /\ ExtIdle /\ ApiIdle /\ BatchIdle /\ PairIdle /\ EngineIdle /\ ScanIdle
SpecHttp == InitHttp /\ [][HttpNext]_vars

InitExtract == ExtInit /\ LocIdle /\ HttpIdle /\ ApiIdle /\ BatchIdle /\ PairIdle /\ EngineIdle /\ ScanIdle

SpecExtract == InitExtract /\ [][ExtNext]_vars

InitApi == ApiInit /\ LocIdle /\ HttpIdle /\ ExtIdle /\ BatchIdle /\ PairIdle /\ EngineIdle /\ ScanIdle
SpecApi == InitApi /\ [][ApiNext]_vars

InitBatch == BatchInit /\ LocIdle /\ HttpIdle /\ ExtIdle /\ ApiIdle /\ PairIdle /\ EngineIdle /\ ScanIdle
SpecBatch == InitBatch /\ [][BatchNext]_vars

InitPair == PairInit /\ LocIdle /\ HttpIdle /\ ExtIdle /\ ApiIdle /\ BatchIdle /\ EngineIdle /\ ScanIdle
SpecPair == InitPair /\ [][PairCall]_vars

InitEngine ==
    EngineInit /\ LocIdle /\ HttpIdle /\ ExtIdle /\ ApiIdle /\ BatchIdle /\ PairIdle
        /\ ScanIdle
SpecEngine == InitEngine /\ [][EngineNext]_vars

InitScan ==
    ScanInit /\ LocIdle /\ HttpIdle /\ ExtIdle /\ ApiIdle /\ BatchIdle /\ PairIdle
        /\ EngineIdle
SpecScan == InitScan /\ [][ScanCall]_vars

(***************************************************************************)
(* Claims about the AlignmentServiceClient                                 *)
(***************************************************************************)
IsErrorStatus(r) == r.kind = "response" /\ r.status >= 400
IsSuccess(r) == r.kind = "response" /\ r.status < 400 /\ r.json_ok

\* C2 as stated: when the endpoint answers with an HTTP error status outside
\* {408, 429, 500, 502, 503, 504} the call fails immediately: that POST is
\* the last one (the only one when it is the first answer), no backoff wait
\* follows it and the error is raised.
C2_NonRetryableFailsImmediately ==
    (IsErrorStatus(resp) /\ resp.status \notin RetryableStatus) =>
        /\ http_pc = "raised"
        /\ Len(waits) = posts - 1

\* C3: whatever the endpoint answers, at most 5 POSTs are made (1 + 4
\* retries); when the 5th fails the call raises; a successful answer makes
\* the call return at once, and the call returns only on a successful answer.
C3_AtMostFiveAttempts ==
    /\ posts <= 5
    /\ (posts = 5 /\ ~IsSuccess(resp)) => http_pc = "raised"
    /\ IsSuccess(resp) => http_pc = "returned"
    /\ http_pc = "returned" => IsSuccess(resp)
    /\ http_pc = "loop" => posts = attempt /\ Len(waits) = posts

\* C3 witness: the 5th POST failed after four waits and the call raised.
C3_Witness ==
    /\ http_pc = "raised"
    /\ posts = 5
    /\ Len(waits) = 4
    /\ resp.kind = "exception" \/ resp.status \in RetryableStatus

\* C24: the base wait before the k-th retry (k = 1..4) is min(2^(k-1), 8)
\* seconds, that is 1, 2, 4, 8; each wait adds a jitter between 0 and 0.5
\* seconds; the base never exceeds 8 seconds and doubles after every retry,
\* whether a retryable status or an exception caused the retry.
C24_BackoffSchedule ==
    /\ Len(waits) <= 4
    /\ \A k \in 1..Len(waits) :
          /\ waits[k].base = Min({2 ^ (k - 1) * 1000, 8000})
          /\ waits[k].base = <<1000, 2000, 4000, 8000>>[k]
          /\ waits[k].jitter >= 0 /\ waits[k].jitter <= 500
          /\ k > 1 /\ k < 4 => waits[k].base = 2 * waits[k - 1].base
    /\ backoff <= 8000
    /\ backoff = Min({2 ^ Len(waits) * 1000, 8000})

\* four retries were made, the last one after an exception, and the base
\* stays at the cap
C24_Witness ==
    /\ Len(waits) = 4
    /\ waits[4].base = 8000 /\ waits[4].jitter = 500
    /\ backoff = 8000
    /\ resp.kind = "exception"

(***************************************************************************)
(* Claims about the StyleSpanExtractor                                     *)
(***************************************************************************)
\* the annotations of the stored container, when it is a list
InputAnnotations ==
    IF raw_styles.t = "list" THEN raw_styles.v
    ELSE IF raw_styles.t = "str" /\ JsonLoads(raw_styles.v).ok
            /\ JsonLoads(raw_styles.v).val.t = "list"
         THEN JsonLoads(raw_styles.v).val.v
    ELSE <<>>

\* the buckets extracted from the annotations that satisfy Keep alone
TermsOfOnly(Keep(_)) ==
    ExtractWordsByStyle(source_text,
                        ParseStyles(JList(SelectSeq(InputAnnotations, Keep))).val, TRUE)

\* the style names that denote BOLD, ITALIC or UNDERLINE, case-insensitively
RecognizedNames ==
    {W.BOLD, W.BOLDED, W.ITALIC, W.ITALICS, W.ITALICIZED, W.UNDERLINE, W.UNDERLINED}
HasRecognizedStyle(a) ==
    LET st == DictGet(a, K.style, DictGet(a, K.Style, Missing))
    IN  a.t = "dict" /\ st.t = "str" /\ Upper(st.v) \in RecognizedNames

\* the offset decodes to an integer >= 0 and the length to an integer > 0
HasWellFormedSpan(a) ==
    /\ a.t = "dict"
    /\ DecodeOffset(a).ok /\ DecodeOffset(a).n >= 0
    /\ DecodeLength(a).ok /\ DecodeLength(a).n > 0

\* C8 as stated: an annotation whose style name is none of the recognized
\* names (the empty and the missing name included) contributes no term: the
\* buckets are those of the recognized annotations alone.
C8_UnrecognizedStyleSkipped ==
    ext_pc = "done" => arrays = TermsOfOnly(HasRecognizedStyle)

\* C9 as stated: an annotation whose offset is no integer >= 0 or whose
\* length is no integer > 0 contributes no term and the others are still
\* processed: the buckets are those of the well-formed annotations alone.
C9_MalformedSpanSkipped ==
    ext_pc = "done" => arrays = TermsOfOnly(HasWellFormedSpan)

\* the stored container is a text that does not decode, or decodes to a
\* number, null or a boolean
UnparsableContainer ==
    /\ raw_styles.t = "str"
    /\ \/ ~JsonLoads(raw_styles.v).ok
       \/ JsonLoads(raw_styles.v).val.t \in {"int", "null", "bool"}

\* C10 as stated: an unparsable container yields empty buckets and no
\* exception.
C10_UnparsableYieldsEmpty ==
    UnparsableContainer =>
        /\ ext_pc # "raised"
        /\ ext_pc = "done" => arrays = EmptyBuckets

\* the offset, the length and the bucket of the n-th span handed to
\* extract_words_by_style
SpanOffset(n) == DictGet(styles[n], K.offset, JNull).v
SpanLength(n) == DictGet(styles[n], K.length, JNull).v
SpanBucket(n) == BucketOfStyle(DictGet(styles[n], K.style, JNull).v)

\* offset >= 0, length > 0 and offset + length <= len(sourceText)
SpanInText(n) ==
    /\ SpanOffset(n) >= 0
    /\ SpanLength(n) > 0
    /\ SpanOffset(n) + SpanLength(n) <= Len(source_text)

\* sourceText[offset : offset + length] of a span within the text
SpanText(n) == SubSeq(source_text, SpanOffset(n) + 1, SpanOffset(n) + SpanLength(n))

Terms(k) == {arrays[k][i] : i \in 1..Len(arrays[k])}

\* C19: for every span with offset >= 0, length > 0 and offset + length <=
\* len(sourceText), the term derived from it is sourceText[offset :
\* offset+length] itself, untrimmed and unsnapped: it is in the bucket of the
\* span's style, unless the bucket holds another term that equals it up to
\* case (the duplicate that made it be dropped).
C19_TermIsExactSlice ==
    ext_pc = "done" =>
        \A n \in 1..Len(styles) :
            SpanInText(n) =>
                \/ SpanText(n) \in Terms(SpanBucket(n))
                \/ \E t \in Terms(SpanBucket(n)) :
                      t # SpanText(n) /\ Lower(t) = Lower(SpanText(n))

\* the span (0, 2) of the text "a ," gave the bold term "a " with its
\* trailing blank
C19_Witness ==
    /\ ext_pc = "done"
    /\ source_text = <<"a", " ", ",">>
    /\ \E n \in 1..Len(styles) :
          SpanInText(n) /\ SpanText(n) = <<"a", " ">> /\ SpanBucket(n) = "bold"
    /\ <<"a", " ">> \in Terms("bold")

\* the substring the n-th span selects, as Python slices it
SpanChunk(n) == PySlice(source_text, SpanOffset(n), SpanOffset(n) + SpanLength(n))

\* the spans of bucket k that select a non-empty substring equal to t up to
\* case, and the lowest offset among them
SpansLike(k, t) ==
    {n \in 1..Len(styles) :
        SpanBucket(n) = k /\ SpanChunk(n) # <<>> /\ Lower(SpanChunk(n)) = Lower(t)}
FirstOffset(k, t) == Min({SpanOffset(n) : n \in SpansLike(k, t)})

\* C20: each bucket lists its terms in ascending order of the offsets of
\* their spans, whatever the order of the annotations, and holds no two
\* terms equal up to case: of the spans of one style whose substrings are
\* equal up to case, the one with the lowest offset gives the term, in its
\* own casing, and every such group is represented.
C20_AscendingAndDeduplicated ==
    ext_pc = "done" =>
        \A k \in {"bold", "italics", "underline"} :
            /\ \A i, j \in 1..Len(arrays[k]) :
                  i < j => /\ Lower(arrays[k][i]) # Lower(arrays[k][j])
                           /\ FirstOffset(k, arrays[k][i]) <= FirstOffset(k, arrays[k][j])
            /\ \A i \in 1..Len(arrays[k]) :
                  \E n \in SpansLike(k, arrays[k][i]) :
                      /\ SpanOffset(n) = FirstOffset(k, arrays[k][i])
                      /\ SpanChunk(n) = arrays[k][i]
            /\ \A n \in 1..Len(styles) :
                  (SpanBucket(n) = k /\ SpanChunk(n) # <<>>) =>
                      \E t \in Terms(k) : Lower(t) = Lower(SpanChunk(n))

\* the bold annotations came as (2, 1) then (0, 1) on the text abAB: the
\* bucket holds "a", the substring at offset 0, and not "A"
C20_Witness ==
    /\ ext_pc = "done"
    /\ source_text = <<"a", "b", "A", "B">>
    /\ Len(styles) = 2
    /\ SpanOffset(1) = 2 /\ SpanLength(1) = 1 /\ SpanBucket(1) = "bold"
    /\ SpanOffset(2) = 0 /\ SpanLength(2) = 1 /\ SpanBucket(2) = "bold"
    /\ arrays.bold = <<<<"a">>>>

(***************************************************************************)
(* Claims about the ResponseRecoveryParser                                 *)
(***************************************************************************)
AlignmentKeys == {K.bold, K.italics, K.underline}

\* every value under the three keys is a list of strings
ListsOfStrings(obj) ==
    \A k \in AlignmentKeys :
        /\ DictHas(obj, k)
        /\ DictGet(obj, k, JNull).t = "list"
        /\ \A i \in 1..Len(DictGet(obj, k, JNull).v) : DictGet(obj, k, JNull).v[i].t = "str"

KeySet(obj) == {obj.v[i][1] : i \in 1..Len(obj.v)}

\* the answer carried the envelope and its content is a structured object
StructuredContent == content.t = "dict" /\ content # data

\* C6: when choices[0].message.content is already a structured object, the
\* call returns that object as the alignment result with the keys bold,
\* italics and underline, as it does for a string that passes the chain
C6_StructuredContentAccepted ==
    (api_pc \in {"returned", "raised"} /\ StructuredContent
        /\ EnsureAlignmentKeys(content).ok) =>
        /\ api_pc = "returned"
        /\ api_obj = EnsureAlignmentKeys(content).val

\* C7 as stated: every result that call_alignment_api returns has exactly
\* the three keys bold, italics and underline and no other key, the value
\* of each a list of strings
C7_ExactlyThreeKeys ==
    api_pc = "returned" =>
        /\ api_obj.t = "dict"
        /\ KeySet(api_obj) = AlignmentKeys
        /\ ListsOfStrings(api_obj)

\* C7 amended: every result that call_alignment_api returns has the three
\* keys bold, italics and underline, the value of each a list of strings;
\* any further key is a key of the object the content decoded to, kept with
\* the value it was decoded with
C7_ThreeKeysOfStrings ==
    api_pc = "returned" =>
        /\ api_obj.t = "dict"
        /\ AlignmentKeys \subseteq KeySet(api_obj)
        /\ ListsOfStrings(api_obj)
        /\ \A k \in KeySet(api_obj) \ AlignmentKeys :
              /\ parsed.t = "dict"
              /\ DictHas(parsed, k)
              /\ DictGet(api_obj, k, JNull) = DictGet(parsed, k, JNull)

\* a returned result that kept a key of the decoded object and whose bold
\* entries had to be turned into strings
C7_Witness ==
    /\ api_pc = "returned"
    /\ KeySet(api_obj) # AlignmentKeys
    /\ parsed.t = "dict"
    /\ DictHas(parsed, K.bold)
    /\ DictGet(parsed, K.bold, JNull) # DictGet(api_obj, K.bold, JNull)

\* C11: when the alignment endpoint URL is absent or empty, the call raises
\* the configuration error before _http_post_json_with_retries is entered:
\* no POST is made and no backoff is waited
C11_NoUrlNoPost ==
    (~Truthy(api_url) /\ api_pc # "start") =>
        /\ api_pc = "raised"
        /\ api_err = "RuntimeError"
        /\ http_calls = 0
        /\ posts = 0
        /\ waits = <<>>
        /\ data = JNull

\* the call has raised for an empty URL
C11_Witness == api_pc = "raised" /\ api_url = JStr(<<>>) /\ api_err = "RuntimeError"

\* the quoted strings a brace list of the claims is made of
BraceStrings ==
    {<<"a">>, <<"b">>, <<"c">>, <<"b", ":", "c">>,
     <<"s">> \o Marker \o <<"a">>, <<"t">> \o Marker \o <<"b">>}

\* "{" + the quoted strings separated by commas + "}"
BraceText(arr) ==
    <<"{">> \o Join([i \in 1..Len(arr) |-> JsonString(arr[i])], <<",">>) \o <<"}">>

\* the lists of quoted strings the content of the call is the brace list
\* of, when it decodes neither directly nor through object extraction
BraceArraysOfContent ==
    LET NoObject(maybe) == ~maybe.found \/ ~JsonLoads(maybe.text).ok
        Undecoded(raw) == ~JsonLoads(raw).ok /\ NoObject(ExtractFirstJsonObject(raw))
        Of(raw) == IF Undecoded(raw)
                   THEN {arr \in SeqsUpTo(BraceStrings, 3) : raw = BraceText(arr)}
                   ELSE {}
    IN  IF content.t = "str" /\ api_pc \in {"returned", "raised"}
        THEN Of(StripCodeFences(content.v)) ELSE {}

\* the outcome C12 states for the brace list arr: the three slices by the
\* term counts when the length is their sum, a failed call otherwise
SlicedOrFailed(arr) ==
    LET bN == Len(terms.bold)
        iN == Len(terms.italics)
        uN == Len(terms.underline)
        Strs(l) == JList([i \in 1..Len(l) |-> JStr(l[i])])
    IN  IF Len(arr) = bN + iN + uN
        THEN /\ api_pc = "returned"
             /\ api_obj = JDict(<< <<K.bold, Strs(SubSeq(arr, 1, bN))>>,
                                   <<K.italics, Strs(SubSeq(arr, bN + 1, bN + iN))>>,
                                   <<K.underline, Strs(SubSeq(arr, bN + iN + 1, Len(arr)))>> >>)
        ELSE /\ api_pc = "raised"
             /\ api_err = "ValueError"

HasColon(arr) == \E i \in 1..Len(arr) : HasChar(arr[i], ":")

\* C12 as stated: a content that is a brace list of quoted strings,
\* whatever characters the strings contain, is sliced into bold, italics
\* and underline by the term counts when its length is their sum, and makes
\* the call fail when the length differs
C12_BraceListSliced == \A arr \in BraceArraysOfContent : SlicedOrFailed(arr)

\* C12 amended: the same for a brace list without any colon; a brace list
\* with a colon inside a quoted string makes the call fail whatever its
\* length
C12_BraceListWithoutColonSliced ==
    \A arr \in BraceArraysOfContent :
        IF HasColon(arr)
        THEN api_pc = "raised" /\ api_err = "ValueError"
        ELSE SlicedOrFailed(arr)

\* a brace list of two marked pairs was sliced into one bold and one
\* italics entry
C12_Witness ==
    /\ <<<<"s">> \o Marker \o <<"a">>, <<"t">> \o Marker \o <<"b">>>> \in BraceArraysOfContent
    /\ api_pc = "returned"
    /\ Len(terms.bold) = 1 /\ Len(terms.italics) = 1 /\ Len(terms.underline) = 0
    /\ api_stages = <<"direct", "extract", "brace">>

\* the text j wrapped in a fence with the language tag line "json"
FencedJson(j) == W.fence \o W.json \o <<"\n">> \o j \o <<"\n">> \o W.fence

\* what such a fence wraps
Unfenced(text) == SubSeq(text, Len(W.fence \o W.json) + 2, Len(text) - Len(W.fence) - 1)

\* j is the JSON text of an object with the keys bold, italics and underline
\* and no other, each a list of strings
ValidObjectText(j) ==
    LET Valid(r) ==
            /\ r.ok
            /\ r.val.t = "dict"
            /\ KeySet(r.val) = AlignmentKeys
            /\ ListsOfStrings(r.val)
    IN  Valid(JsonLoads(j))

\* the content of the call at hand is a valid object text in a json fence
FencedValidContent ==
    /\ api_pc \in {"returned", "raised"}
    /\ content.t = "str"
    /\ Len(content.v) >= Len(FencedJson(<<>>))
    /\ content.v = FencedJson(Unfenced(content.v))
    /\ ValidObjectText(Unfenced(content.v))

\* C21: when the content is the text of a valid {bold, italics, underline}
\* object wrapped in a triple-backtick fence with a "json" tag line, the call
\* returns the object that the chain recovers from the unfenced text, and
\* the encoding of that object decodes back to it.
C21_FenceInvariance ==
    FencedValidContent =>
        LET Same(alone) ==
                /\ alone.ok
                /\ api_pc = "returned"
                /\ api_obj = alone.obj
                /\ \A k \in AlignmentKeys :
                      DictGet(api_obj, k, JNull)
                          = DictGet(JsonLoads(Unfenced(content.v)).val, k, JNull)
            Back(r) == r.ok /\ r.val = api_obj
        IN  /\ Same(Recover(JStr(Unfenced(content.v)), terms))
            /\ Back(JsonLoads(JsonDumps(api_obj)))

\* the fenced object whose keys come in the order underline, bold, italics
\* was returned with its bold entry
C21_Witness ==
    /\ FencedValidContent
    /\ api_pc = "returned"
    /\ DictGet(api_obj, K.bold, JNull) = JList(<<JStr(<<"a">>)>>)
    /\ JsonLoads(Unfenced(content.v)).val.v[1][1] = K.underline

\* the recovery chain ran on a text content
ChainRan == api_pc \in {"returned", "raised"} /\ content.t = "str"
Attempted(stage) == \E n \in 1..Len(api_stages) : api_stages[n] = stage
\* what the direct decode and the decode of the first balanced object give,
\* JNull when they give nothing
DirectValue(raw) ==
    LET Val(r) == IF r.ok THEN r.val ELSE JNull
    IN  Val(JsonLoads(raw))
ExtractedValue(raw) ==
    LET Val(r) == IF r.ok THEN r.val ELSE JNull
        Of(maybe) == IF maybe.found THEN Val(JsonLoads(maybe.text)) ELSE JNull
    IN  Of(ExtractFirstJsonObject(raw))
\* the brace list of the text, when it has as many items as were requested
BraceValue(raw) ==
    LET total == Len(terms.bold) + Len(terms.italics) + Len(terms.underline)
        Of(brace) == IF brace.found /\ Len(brace.arr) = total
                     THEN EnsureAlignmentKeys(SplitByCounts(brace.arr, terms)).val
                     ELSE JNull
    IN  Of(CoerceBraceListToArray(raw))
\* the error "Alignment API did not return valid JSON content"
TerminalError == api_pc = "raised" /\ api_err = "ValueError" /\ parsed = JNull

\* C23: the recovery stages are an ordered chain: the direct decode comes
\* first, the first balanced object is extracted only when the direct decode
\* of the fence-stripped content fails, the brace list is coerced only when
\* neither gave a decoded value, the terminal error is raised only when all
\* three fail, and the result is that of the first stage that succeeds.
C23_OrderedChain ==
    ChainRan =>
        LET Chain(raw) ==
                /\ api_stages # <<>> /\ api_stages[1] = "direct"
                /\ Attempted("extract") => ~JsonLoads(raw).ok
                /\ Attempted("brace") => DirectValue(raw) = JNull /\ ExtractedValue(raw) = JNull
                /\ TerminalError => /\ DirectValue(raw) = JNull
                                    /\ ExtractedValue(raw) = JNull
                                    /\ BraceValue(raw) = JNull
                /\ DirectValue(raw) # JNull =>
                       parsed = DirectValue(raw) /\ api_stages = <<"direct">>
                /\ DirectValue(raw) = JNull /\ ExtractedValue(raw) # JNull =>
                       parsed = ExtractedValue(raw) /\ ~Attempted("brace")
                /\ DirectValue(raw) = JNull /\ ExtractedValue(raw) = JNull
                     /\ BraceValue(raw) # JNull =>
                       api_pc = "returned" /\ api_obj = BraceValue(raw)
        IN  Chain(StripCodeFences(content.v))

\* the direct decode and the decode of the first balanced object failed, and
\* the call returned the brace list
C23_Witness ==
    /\ ChainRan /\ api_pc = "returned"
    /\ api_stages = <<"direct", "extract", "brace">>
    /\ api_obj = BraceValue(StripCodeFences(content.v))

\* the first '{' of the scanned text, as a Python index, or -1
FirstBrace == Find(scan.text, <<"{">>, 0)
\* the character at Python index i of the scanned text
CharAt(i) == scan.text[i + 1]
\* the number of backslashes that stand immediately before index i
BackslashRun(i) ==
    LET Runs == {n \in 0..(i - FirstBrace) :
                    \A m \in 1..n : CharAt(i - m) = "\\"}
    IN  Max(Runs)
RECURSIVE InLiteral(_)
\* index i lies inside a double-quoted string literal that was opened at or
\* after the first '{': an odd number of quotes before it open or close a
\* literal, and a quote inside a literal closes it unless it is escaped
InLiteral(i) ==
    LET Closes(j) == BackslashRun(j) % 2 = 0
        Toggles(j) == CharAt(j) = "\"" /\ (InLiteral(j) => Closes(j))
    IN  Cardinality({j \in FirstBrace..(i - 1) : Toggles(j)}) % 2 = 1
\* the brace depth after index i: the braces outside literals in the text
\* from the first '{' to i, opening minus closing
DepthAfter(i) ==
    LET Counted(ch) == {j \in FirstBrace..i : CharAt(j) = ch /\ ~InLiteral(j)}
    IN  Cardinality(Counted("{")) - Cardinality(Counted("}"))
\* the indices of the '}' outside literals that bring the depth to zero
ClosingBraces ==
    {i \in FirstBrace..(Len(scan.text) - 1) :
        CharAt(i) = "}" /\ ~InLiteral(i) /\ DepthAfter(i) = 0}

\* C26: _extract_first_json_object returns the substring from the first '{'
\* of the text to the '}' that brings the brace depth back to zero, where
\* braces inside double-quoted string literals are not counted and a
\* backslash-escaped quote does not end a literal; it returns nothing when
\* there is no '{' or the depth never returns to zero.
C26_FirstBalancedObject ==
    scan.pc = "returned" =>
        IF FirstBrace = -1 \/ ClosingBraces = {}
        THEN ~scan.result.found
        ELSE /\ scan.result.found
             /\ scan.result.text = PySlice(scan.text, FirstBrace, Min(ClosingBraces) + 1)

\* the text {"\"}"} : the '}' inside the literal is not counted and the
\* escaped quote does not end the literal
C26_Witness ==
    /\ scan.pc = "returned"
    /\ scan.text = <<"{", "\"", "\\", "\"", "}", "\"">>
    /\ ~scan.result.found

\* C27: when the content decodes to a flat list L, the call slices it by the
\* requested counts with no length check: bold = L[0:bN], italics =
\* L[bN:bN+iN], underline = L[bN+iN:bN+iN+uN], each element as its str();
\* the elements beyond bN+iN+uN are discarded, a shorter list gives shorter
\* buckets, and no error is raised for a length mismatch.
C27_FlatListSlicedUnchecked ==
    ChainRan =>
        LET bN == Len(terms.bold)
            iN == Len(terms.italics)
            uN == Len(terms.underline)
            Sliced(L) ==
                LET n == Len(L)
                    \* L[a:b] of Python, 0 <= a <= b
                    Slice(a, b) ==
                        JList([x \in 1..(Min({b, n}) - Min({a, n})) |->
                                  JStr(PyStr(L[Min({a, n}) + x]))])
                IN  /\ api_pc = "returned"
                    /\ api_obj = JDict(<< <<K.bold, Slice(0, bN)>>,
                                          <<K.italics, Slice(bN, bN + iN)>>,
                                          <<K.underline, Slice(bN + iN, bN + iN + uN)>> >>)
            Flat(decoded) == decoded.t = "list" => Sliced(decoded.v)
        IN  Flat(DirectValue(StripCodeFences(content.v)))

\* a list of four strings was sliced for one bold, one italics and one
\* underline term: the fourth string is discarded
C27_Witness ==
    /\ ChainRan /\ api_pc = "returned"
    /\ DirectValue(StripCodeFences(content.v)).t = "list"
    /\ Len(DirectValue(StripCodeFences(content.v)).v) = 4
    /\ api_obj = JDict(<< <<K.bold, JList(<<JStr(<<"a">>)>>)>>,
                          <<K.italics, JList(<<JStr(<<"b">>)>>)>>,
                          <<K.underline, JList(<<JStr(<<"c">>)>>)>> >>)

(***************************************************************************)
(* Claims about the BatchOrchestrator                                      *)
(***************************************************************************)
BatchOver == batch_pc \in {"returned", "raised"}

\* the exceptions that leave the alignment call of a pair
AlignmentErrors == {"RuntimeError", "HTTPError", "ValueError", "TypeError", "UnboundLocalError"}

Written(r, l) == \E i \in 1..Len(written) : written[i].row = r /\ written[i].lang = l

\* C4: a terminal alignment error for one (row, language) pair does not
\* abort the batch: when the batch is over, every other pair has been
\* aligned and its target-styles column written
C4_ErrorDoesNotAbortBatch ==
    (BatchOver /\ failure.kind \in AlignmentErrors) =>
        \A r \in 1..legal_rows, l \in 1..Columns :
            <<r, l>> # <<failure.row, failure.lang>> => Written(r, l)

\* C30: in a batch, a pair whose translated text is empty after trimming
\* makes no alignment call, gets the empty list written to its target column
\* and increments skipped_no_translation; a pair with a translated text
\* makes exactly one alignment call, also when no style term was extracted,
\* and its column is written only after that call and the span location
\* succeeded; at normal completion records_updated is the number of writes
\* and is at least skipped_no_translation.
C30_SkipOrCallOnceThenWrite ==
    [][/\ (batch_pc = "pair") =>
             LET Wrote(value) ==
                     written' = Append(written, [row |-> row, lang |-> lang, value |-> value])
                 Succeeded(r) ==
                     /\ r.ok
                     /\ Len(written') = Len(written) + 1
                     /\ Wrote(written'[Len(written')].value)
             IN  IF answer' = NoAnswer
                 THEN /\ calls' = calls
                      /\ summary'.skipped_no_translation = summary.skipped_no_translation + 1
                      /\ batch_pc' # "raised" => Wrote(<<>>)
                 ELSE /\ answer'.text # <<>>
                      /\ calls' = Append(calls, <<row, lang>>)
                      /\ \A n \in 1..Len(calls) : calls[n] # <<row, lang>>
                      /\ summary'.skipped_no_translation = summary.skipped_no_translation
                      /\ written' # written =>
                             Succeeded(CallAlignmentApi(
                                 APIM_URL, [kind |-> answer'.kind, data |-> answer'.data],
                                 answer'.terms))
       /\ (batch_pc' = "returned") =>
             /\ summary'.records_updated = Len(written')
             /\ summary'.records_updated >= summary'.skipped_no_translation
             /\ Len(calls') + summary'.skipped_no_translation = Len(written')]_vars

\* a batch that returned after one skipped pair and one pair for which no
\* style term was extracted, which was aligned and written all the same
C30_Witness ==
    /\ batch_pc = "returned"
    /\ summary = [records_updated |-> 2, skipped_no_translation |-> 1]
    /\ Len(calls) = 1 /\ Len(written) = 2
    /\ written[1].value = <<>>
    /\ answer.kind = "json" /\ answer.terms = EmptyBuckets
    /\ Len(written[2].value) = 1

\* the three recovery stages, each on its own, for a text content and the
\* number of source terms: the direct decode raises, no balanced object can
\* be cut out and decoded, the brace list cannot be coerced or has another
\* length than the source terms
FailsEveryStage(text, total) ==
    LET NoObject(maybe) == ~maybe.found \/ ~JsonLoads(maybe.text).ok
        NoList(brace) == ~brace.found \/ Len(brace.arr) # total
        Fails(raw) ==
            /\ ~JsonLoads(raw).ok
            /\ NoObject(ExtractFirstJsonObject(raw))
            /\ NoList(CoerceBraceListToArray(raw))
    IN  Fails(StripCodeFences(text))

\* the last alignment call got a text content that fails every recovery
\* stage
UnrecoverableAnswer ==
    LET Total(t) == Len(t.bold) + Len(t.italics) + Len(t.underline)
    IN  /\ answer.kind = "json"
        /\ Truthy(APIM_URL)
        /\ GetContent(answer.data).t = "str"
        /\ FailsEveryStage(GetContent(answer.data).v, Total(answer.terms))

\* C5: when the service content fails every recovery stage, the alignment
\* call raises and the error leaves the batch; no result is substituted and
\* nothing is written to the target-styles column of that pair
C5_UnrecoverableContentRaises ==
    UnrecoverableAnswer =>
        /\ batch_pc = "raised"
        /\ failure = [kind |-> "ValueError", row |-> row, lang |-> lang]
        /\ ~Written(row, lang)
        /\ Len(written) = summary.records_updated

\* an unrecoverable answer for a pair that is not the first of the batch
C5_Witness ==
    /\ UnrecoverableAnswer
    /\ batch_pc = "raised"
    /\ Len(written) >= 1

(***************************************************************************)
(* Claims about the positional pairing                                     *)
(***************************************************************************)
StyleKeyText(k) == IF k = "bold" THEN K.bold ELSE IF k = "italics" THEN K.italics ELSE K.underline

\* the entries of bucket k of the service's result
RawEntries(k) ==
    LET Of(v) == [i \in 1..Len(v.v) |-> v.v[i].v]
    IN  Of(DictGet(raw_alignment, StyleKeyText(k), JList(<<>>)))

Marked(entries) == \E i \in 1..Len(entries) : Contains(entries[i], Marker)

\* the positions of bucket k that are paired: within both lists, with a
\* non-empty entry
PairedPositions(k) ==
    {i \in 1..Min({Len(RawEntries(k)), Len(src_arrays[k])}) : RawEntries(k)[i] # <<>>}

\* C13: for a bucket in which no entry contains the marker, the output is
\* the list of source[i]****entry[i] for the positions i within both lists,
\* in index order, without the positions whose entry is the empty string;
\* an omitted entry does not shift the source of a later one
C13_PositionalPairs ==
    pair_pc = "done" =>
        \A k \in {"bold", "italics", "underline"} :
            ~Marked(RawEntries(k)) =>
                /\ Len(fixed_alignment[k]) = Cardinality(PairedPositions(k))
                /\ \A i \in PairedPositions(k) :
                      fixed_alignment[k][Cardinality({x \in PairedPositions(k) : x <= i})]
                          = src_arrays[k][i] \o Marker \o RawEntries(k)[i]

\* the empty first entry was omitted and the second entry got the second
\* source
C13_Witness ==
    /\ pair_pc = "done"
    /\ RawEntries("bold") = <<<<>>, <<"b">>>>
    /\ fixed_alignment.bold = <<<<"T">> \o Marker \o <<"b">>>>

\* C14: a bucket in which at least one entry contains the marker comes out
\* unchanged, its unmarked entries included, whatever the other buckets are
C14_MarkedBucketUnchanged ==
    pair_pc = "done" =>
        \A k \in {"bold", "italics", "underline"} :
            Marked(RawEntries(k)) => fixed_alignment[k] = RawEntries(k)

\* a bold bucket with a marked and a bare entry passed through while the
\* italics bucket was paired
C14_Witness ==
    /\ pair_pc = "done"
    /\ RawEntries("bold") = <<<<"a">>, <<"s">> \o Marker \o <<"a">>>>
    /\ fixed_alignment.bold = RawEntries("bold")
    /\ Len(src_arrays.bold) = 2
    /\ fixed_alignment.italics = <<<<"V">> \o Marker \o <<"b">>>>

\* the last pair of the batch was the scenario's: the BOLD term Bold, the
\* translated text and the service's content, aligned, located and stored
ScenarioStored ==
    /\ batch_pc \in {"pair", "row", "returned"}
    /\ answer.kind = "json"
    /\ answer.data = Envelope(JStr(Scenario.content))
    /\ answer.text = Scenario.translated
    /\ answer.terms = [bold |-> <<<<"B","o","l","d">>>>, italics |-> <<>>, underline |-> <<>>]
    /\ written # <<>>

ScenarioSpan(at) ==
    [style |-> "BOLD", source |-> <<"B","o","l","d">>,
     translated_text |-> <<"G","r","a","s">>, offset |-> at, length |-> 4]

\* C18 as stated: the scenario yields exactly one located span, BOLD, source
\* Bold, translated_text Gras, offset 8, length 4
C18_ScenarioSpanAtEight ==
    ScenarioStored => written[Len(written)].value = <<ScenarioSpan(8)>>

\* C18 amended: the scenario yields exactly one located span, BOLD, source
\* Bold, translated_text Gras, length 4, at offset 9, the index of Gras in
\* the translated text (7 characters "Le mot " and the 2 asterisks precede it)
C18_ScenarioSpanAtNine ==
    ScenarioStored => written[Len(written)].value = <<ScenarioSpan(9)>>

C18_Witness ==
    /\ ScenarioStored
    /\ source = Scenario.value
    /\ written[Len(written)].value = <<ScenarioSpan(9)>>
    /\ Find(Scenario.translated, <<"G","r","a","s">>, 0) = 9

(***************************************************************************)
(* Claims about concurrent calls                                           *)
(***************************************************************************)
RECURSIVE CursorAlone(_, _, _, _)
\* the cursor a bucket ends with when its entries are located one after the
\* other from cursor cur
CursorAlone(arr, text, keep_flag, cur) ==
    IF arr = <<>> THEN cur
    ELSE CursorAlone(Tail(arr), text, keep_flag,
                     LocateStep(Head(arr), text, keep_flag, cur, "BOLD").cursor)

\* the buckets of call c when it runs alone
BucketsAlone(c) == PairPositionallyIfNeeded(engine[c].raw, engine[c].src)

\* C22: under every interleaving of the steps of two concurrent calls, each
\* call that has returned holds the buckets, the cursors and the located
\* spans that it produces when it runs alone.
C22_CallsDoNotInterfere ==
    \A c \in DOMAIN engine :
        engine[c].pc = "done" =>
            /\ engine[c].fixed = BucketsAlone(c)
            /\ engine[c].out = TransformAlignmentToStyles(BucketsAlone(c), engine[c].text,
                                                          engine[c].keep_flag)
            /\ \A k \in {"bold", "italics", "underline"} :
                  engine[c].cursors[k] = CursorAlone(BucketsAlone(c)[k], engine[c].text,
                                                     engine[c].keep_flag, 0)

\* call 2 returned its two spans at offsets 0 and 1 while call 1, which had
\* located a span of its own, was still in its bold bucket
C22_Witness ==
    /\ engine # <<>>
    /\ engine[2].pc = "done"
    /\ Len(engine[2].out) = 3
    /\ engine[2].out[1].offset = 0 /\ engine[2].out[2].offset = 1
    /\ engine[1].pc = "locate" /\ engine[1].key = 1 /\ engine[1].item = 2
    /\ engine[1].cursor > 0

(***************************************************************************)
(* Claims about the SpanLocator                                            *)
(***************************************************************************)
\* positions in out of two located spans of one bucket with no located span
\* of that bucket between them
ConsecutiveLocated(i, j) ==
    /\ i < j
    /\ out[i].style = out[j].style
    /\ out[i].offset >= 0
    /\ out[j].offset >= 0
    /\ \A k \in (i + 1)..(j - 1) : ~(out[k].style = out[i].style /\ out[k].offset >= 0)

\* C1 as stated: within one style bucket every located span starts at or
\* after offset + length of the previously located span of that bucket.
C1_LeftToRight ==
    \A i, j \in DOMAIN out :
        ConsecutiveLocated(i, j) => out[j].offset >= out[i].offset + out[i].length

\* C1 amended: within one style bucket a located span starts at or after the
\* end of the previously located span, unless its target occurs neither
\* case-sensitively nor case-insensitively at or after that end; it is then
\* placed at the first case-sensitive occurrence in the whole text, which may
\* precede or overlap the previous span.
C1_LeftToRightUnlessFallback ==
    \A i, j \in DOMAIN out :
        ConsecutiveLocated(i, j) =>
            LET end == out[i].offset + out[i].length
                tgt == out[j].translated_text
            IN  \/ out[j].offset >= end
                \/ /\ Find(translated_text, tgt, end) = -1
                   /\ Find(Lower(translated_text), Lower(tgt), end) = -1
                   /\ out[j].offset = Find(translated_text, tgt, 0)

\* C1 witness: a finished call that located two spans of one bucket, the
\* second one after the end of the first.
C1_Witness ==
    /\ LocDone
    /\ \E i, j \in DOMAIN out :
          /\ ConsecutiveLocated(i, j)
          /\ out[i].length > 0
          /\ out[j].offset >= out[i].offset + out[i].length

\* the spans of one style, in the order of the output
SpansOf(style_name) == SelectSeq(out, LAMBDA sp : sp.style = style_name)
\* the entry may have produced the span
ProducedBy(sp, entry) ==
    /\ sp.source = SplitPair(entry)[1]
    /\ sp.offset >= 0 => /\ SplitPair(entry)[2] # <<>>
                         /\ sp.length = Len(SplitPair(entry)[2])
    /\ sp.offset = -1 => keep_unmatched
\* the spans come from entries of the array at increasing positions
InArrayOrder(spans, arr) ==
    \E f \in [1..Len(spans) -> 1..Len(arr)] :
        /\ \A i, j \in 1..Len(spans) : i < j => f[i] < f[j]
        /\ \A i \in 1..Len(spans) : ProducedBy(spans[i], arr[f[i]])

\* C25: the output lists all spans of the bold bucket, then all of italics,
\* then all of underline, and within a bucket the spans are in the array
\* order of the entries that produced them, whatever their offsets.
C25_BucketThenArrayOrder ==
    LocDone =>
        /\ out = SpansOf("BOLD") \o SpansOf("ITALIC") \o SpansOf("UNDERLINE")
        /\ \A k \in 1..3 :
              /\ InArrayOrder(SpansOf(StyleNames[k]), alignment[StyleKeys[k]])
              /\ keep_unmatched =>
                     Len(SpansOf(StyleNames[k])) = Len(alignment[StyleKeys[k]])

\* two bold spans at offsets 0 and 1 are followed by the italics span at
\* offset 0
C25_Witness ==
    /\ LocDone
    /\ Len(out) = 3
    /\ out[1].style = "BOLD" /\ out[1].offset = 0
    /\ out[2].style = "BOLD" /\ out[2].offset = 1
    /\ out[3].style = "ITALIC" /\ out[3].offset = 0

\* lower-casing the translated text preserves its character count
LowerKeepsLength == Len(Lower(translated_text)) = Len(translated_text)
\* the targets of the entries of the bucket of a style
TargetsOf(style_name) ==
    LET kk == CHOOSE n \in 1..3 : StyleNames[n] = style_name
    IN  {SplitPair(alignment[StyleKeys[kk]][n])[2] : n \in 1..Len(alignment[StyleKeys[kk]])}

\* C28: for a text whose lower-casing preserves the character count, every
\* emitted span is either a placeholder (offset -1, length 0, empty text) or
\* a located span with offset >= 0, length = len(target) >= 1, offset +
\* length <= len(translated_text) and a text equal to the slice of the
\* translated text at [offset, offset + length), in the text's own casing
\* also after a case-insensitive match.
C28_PlaceholderOrLocatedSlice ==
    LowerKeepsLength =>
        \A n \in DOMAIN out :
            \/ /\ out[n].offset = -1
               /\ out[n].length = 0
               /\ out[n].translated_text = <<>>
            \/ /\ out[n].offset >= 0
               /\ out[n].length >= 1
               /\ out[n].offset + out[n].length <= Len(translated_text)
               /\ out[n].translated_text =
                      SubSeq(translated_text, out[n].offset + 1,
                             out[n].offset + out[n].length)
               /\ \E tgt \in TargetsOf(out[n].style) :
                      /\ out[n].length = Len(tgt)
                      /\ Lower(out[n].translated_text) = Lower(tgt)

\* the target "a" was matched without regard to case at offset 1 and the
\* span carries the "A" of the text
C28_Witness ==
    /\ LocDone /\ LowerKeepsLength
    /\ translated_text = <<"a", "A">>
    /\ Len(out) = 3
    /\ out[2].offset = 1 /\ out[2].length = 1 /\ out[2].translated_text = <<"A">>
    /\ SplitPair(alignment.bold[2])[2] = <<"a">>

\* the entry that LocateEntry is about to take, and its target
NextEntry == alignment[StyleKeys[key]][item]
NextTarget == SplitPair(NextEntry)[2]

\* the substring of text at index p equals needle up to case
CaselessAt(text, needle, p) ==
    /\ p >= 0
    /\ p + Len(needle) <= Len(text)
    /\ Lower(PySlice(text, p, p + Len(needle))) = Lower(needle)

\* the offset the three strategies give for needle in text with cursor c,
\* -1 when all three fail
ThreeStrategies(text, needle, c) ==
    LET exact_after == {p \in c..Len(text) : OccursAt(text, needle, p)}
        caseless_after == {p \in c..Len(text) : CaselessAt(text, needle, p)}
        exact_anywhere == {p \in 0..Len(text) : OccursAt(text, needle, p)}
    IN  IF exact_after # {} THEN Min(exact_after)
        ELSE IF caseless_after # {} THEN Min(caseless_after)
        ELSE IF exact_anywhere # {} THEN Min(exact_anywhere)
        ELSE -1

\* C15: locating a non-empty target with cursor c gives the earliest exact
\* occurrence at index >= c, else the earliest case-insensitive occurrence at
\* index >= c, else the earliest exact occurrence anywhere; when all three
\* fail the target is not found and no located span is appended.
C15_ThreeStrategiesInOrder ==
    [][(LocateEntry /\ NextTarget # <<>>) =>
          LET expected == ThreeStrategies(translated_text, NextTarget, cursor)
          IN  IF expected = -1
              THEN \A n \in (Len(out) + 1)..Len(out') : out'[n].offset = -1
              ELSE /\ Len(out') = Len(out) + 1
                   /\ out'[Len(out')].offset = expected]_vars

\* the entry at hand has an empty target or _find_from does not find it
Unmatched ==
    \/ NextTarget = <<>>
    \/ FindFrom(translated_text, NextTarget, cursor) = -1

\* C16: an entry whose target is empty (a bare entry included) or is not
\* found gets no span when keep_unmatched is false and exactly one span with
\* offset -1, length 0 and empty translated_text when it is true; with
\* keep_unmatched true every entry gets exactly one span, so a finished call
\* has as many spans as the buckets have entries.
C16_UnmatchedSkippedOrPlaceholder ==
    /\ [][LocateEntry =>
            /\ (Unmatched /\ ~keep_unmatched) => out' = out
            /\ (Unmatched /\ keep_unmatched) =>
                  /\ Len(out') = Len(out) + 1
                  /\ SubSeq(out', 1, Len(out)) = out
                  /\ out'[Len(out')].offset = -1
                  /\ out'[Len(out')].length = 0
                  /\ out'[Len(out')].translated_text = <<>>
            /\ keep_unmatched => Len(out') = Len(out) + 1]_vars
    /\ [](LocDone /\ keep_unmatched =>
            Len(out) = Len(alignment.bold) + Len(alignment.italics)
                       + Len(alignment.underline))

\* a finished call with keep_unmatched that gave a placeholder to a bare
\* entry, to an entry whose target is not in the text and to the italics entry
C16_Witness ==
    /\ LocDone
    /\ keep_unmatched
    /\ alignment.bold = <<<<"s">>, <<"s">> \o Marker \o <<"a">>>>
    /\ translated_text = <<"U+0130">>
    /\ Len(out) = 3
    /\ \A n \in 1..3 : out[n].offset = -1 /\ out[n].length = 0

\* C17: when the entry at hand has the same non-empty target as the entry
\* before it in the bucket and the text has an occurrence of the target at or
\* after the end of that entry's match, the earlier span is at the earliest
\* occurrence (of the whole text for the first two entries of a bucket) and
\* the later span starts at or after the earlier span's offset + length.
C17_DuplicateTargetsDoNotOverlap ==
    [][(/\ LocateEntry
        /\ item >= 2
        /\ NextTarget # <<>>
        /\ SplitPair(alignment[StyleKeys[key]][item - 1])[2] = NextTarget
        /\ \E p \in cursor..Len(translated_text) :
               OccursAt(translated_text, NextTarget, p)) =>
          /\ Len(out) >= 1
          /\ Len(out') = Len(out) + 1
          /\ LET first == out[Len(out)]
                 second == out'[Len(out')]
             IN  /\ first.style = StyleNames[key]
                 /\ OccursAt(translated_text, NextTarget, first.offset)
                 /\ item = 2 =>
                       \A p \in 0..(first.offset - 1) :
                           ~OccursAt(translated_text, NextTarget, p)
                 /\ OccursAt(translated_text, NextTarget, second.offset)
                 /\ second.offset >= first.offset + first.length]_vars

\* the text a, U+0130, a with the bold entries s****a, s****a: offsets 0 and 2
C17_Witness ==
    /\ LocDone
    /\ translated_text = <<"a", "U+0130", "a">>
    /\ alignment.bold = <<<<"s">> \o Marker \o <<"a">>, <<"s">> \o Marker \o <<"a">>>>
    /\ Len(out) >= 2
    /\ out[1].offset = 0 /\ out[1].length = 1
    /\ out[2].offset = 2 /\ out[2].style = "BOLD"

\* C29: a bucket's cursor changes only when an entry of that bucket is
\* located, and it becomes the start of the match plus the length of the
\* target; an entry with an empty target or with a target that is not found
\* leaves it unchanged. Each bucket starts with cursor 0 whatever was matched
\* in the buckets before it, and no bucket's stored cursor is changed by
\* another bucket.
C29_CursorFrame ==
    [][/\ (key' = key /\ item' = item + 1) =>
             LET Moved(tgt, pos) ==
                     IF tgt # <<>> /\ pos # -1
                     THEN cursor' = pos + Len(tgt)
                     ELSE cursor' = cursor /\ (Len(out') > Len(out) => out'[Len(out')].offset = -1)
             IN  /\ Moved(NextTarget, FindFrom(translated_text, NextTarget, cursor))
                 /\ cursors' = cursors
       /\ (key' = key + 1) =>
             /\ key < 3 => cursor' = 0
             /\ cursors' = [cursors EXCEPT ![StyleKeys[key]] = cursor]
             /\ \A k \in 1..3 : k # key => cursors'[StyleKeys[k]] = cursors[StyleKeys[k]]
             /\ \A k \in (key + 1)..3 : cursors[StyleKeys[k]] = 0]_vars

\* the bold span and the italics span are both located at offset 0: the
\* italics bucket started from cursor 0 although the bold cursor was at 1
C29_Witness ==
    /\ LocDone
    /\ Len(out) = 2
    /\ out[1].style = "BOLD" /\ out[1].offset = 0 /\ out[1].length = 1
    /\ out[2].style = "ITALIC" /\ out[2].offset = 0 /\ out[2].length = 1
    /\ cursors.bold = 1 /\ cursors.italics = 1

====
